--------------------------- MODULE AccessPipeline ---------------------------
(***************************************************************************)
(* The access log of the agent: the dispatcher's recorder of user          *)
(* connections, the collector goroutine of each control session, the list  *)
(* of samples waiting in the runtime, the accumulator and the bounded      *)
(* write-ahead log of the SQLite store, and the control connection.        *)
(*                                                                         *)
(* A connection's counters are abstracted to the connection itself: an     *)
(* item carries the connections whose count it reports, once.  Connections *)
(* of one user, host and five-minute bucket share a key.  Sessions live in *)
(* slots as in TrafficWAL.  A row of the log stands for its whole content, *)
(* boot id and hash included, so an acknowledgement names a row.           *)
(***************************************************************************)
EXTENDS Naturals, FiniteSets, Sequences

CONSTANTS Conn,            \* connections the data plane may accept
          Key,             \* session keys (accessSessionKey)
          Slot,            \* control sessions whose goroutines may coexist
          CreatedAt,       \* created_at of a row, as the text order ranks it
          MaxItems,        \* items AddAccess and RequeueAccess take (20000)
          BatchItems,      \* maxAccessBatchItems (1000)
          MaxBatches,      \* maxAccessWALBatches (1440)
          MaxBytes,        \* maxAccessWALBytes, in items (64 MiB)
          PendingLimit,    \* rows one sendPendingAccess reads (100)
          MaxInFlight,     \* frames a connection buffers before send blocks
          MaxCheckpoints,  \* bound on checkpoints of open connections
          MaxFaults        \* bound on crashes, lost sessions, store errors

ASSUME LimitsAssumption == /\ Key \subseteq Nat /\ CreatedAt \subseteq Nat
                           /\ Key # {} /\ CreatedAt # {}
                           /\ {MaxItems, BatchItems, MaxBatches, MaxBytes,
                               PendingLimit, MaxInFlight} \subseteq Nat \ {0}
                           /\ BatchItems <= MaxBytes
                           /\ {MaxCheckpoints, MaxFaults} \subseteq Nat

VARIABLES
  key,          \* key[c]: the session key connection c hashes to
  phase,        \* phase[c]: life of connection c
  core,         \* the running core: up, closing (being replaced) or down
  recorder,     \* AccessRecorder.active of the running core
  fresh,        \* connections whose count no sample has taken yet
  checkpoints,  \* checkpoints of open connections so far
  pending,      \* XrayRuntime.pendingAccess
  sess,         \* sess[s]: phase of the control session in slot s
  worker,       \* worker[s]: where its collector goroutine stands
  seen,         \* seen[s]: what its Drain has read: [closed, due]
  hand,         \* hand[s]: items collected and not yet stored
  todo,         \* todo[s]: rows sendPendingAccess still has to send
  toServer,     \* toServer[s]: rows on the wire
  toClient,     \* toClient[s]: acknowledgements on the wire
  accumulator,  \* table access_accumulator
  wal,          \* table access_wal
  sequence,     \* meta.access_sequence
  settled,      \* history: connections whose row the server has settled
  boot,         \* starts of the process
  faults        \* faults so far, bounded by MaxFaults

planeVars   == <<key, phase, core, recorder, fresh, checkpoints>>
workerVars  == <<worker, seen, hand, todo>>
wireVars    == <<toServer, toClient>>
storeVars   == <<accumulator, wal, sequence>>
vars == <<planeVars, pending, sess, workerVars, wireVars, storeVars, settled, boot, faults>>

Item   == [key : Key, conns : SUBSET Conn, active : BOOLEAN, ended : BOOLEAN]
Row    == [seq : Nat, created : CreatedAt, items : SUBSET Item]
Status == {"settled", "retry_later", "invalid"}
Nothing == [closed |-> {}, due |-> {}]

ItemsOf(list)  == {list[n] : n \in DOMAIN list}
ConnsOf(items) == UNION {i.conns : i \in items}
RowConns(rows) == UNION {ConnsOf(b.items) : b \in rows}

Phase == {"none", "open", "ending", "closed"}
Place == {"idle", "draining", "collected", "refused", "added", "drained", "sending", "dead"}

Init == /\ key \in [Conn -> Key]
        /\ phase = [c \in Conn |-> "none"]
        /\ core = "down" /\ recorder = {} /\ fresh = {} /\ checkpoints = 0
        /\ pending = <<>>
        /\ sess = [s \in Slot |-> "ended"]
        /\ worker = [s \in Slot |-> "dead"]
        /\ seen = [s \in Slot |-> Nothing]
        /\ hand = [s \in Slot |-> <<>>]
        /\ todo = [s \in Slot |-> {}]
        /\ toServer = [s \in Slot |-> <<>>]
        /\ toClient = [s \in Slot |-> <<>>]
        /\ accumulator = {} /\ wal = {} /\ sequence = 0
        /\ settled = {} /\ boot = 1 /\ faults = 0

Fault == faults < MaxFaults /\ faults' = faults + 1

-----------------------------------------------------------------------------
(* The data plane and its recorder.                                        *)

\* AccessRecorder.Start.  A connection may still find the recorder of a core
\* that is being closed.
Start(c) == /\ phase[c] = "none"
            /\ core # "down"
            /\ phase' = [phase EXCEPT ![c] = "open"]
            /\ recorder' = recorder \cup {c}
            /\ fresh' = fresh \cup {c}
            /\ UNCHANGED <<key, core, checkpoints, pending, sess, workerVars, wireVars,
                           storeVars, settled, boot, faults>>

\* AccessSession.Close stores endedAt ...
CloseStoresEnd(c) == /\ phase[c] = "open"
                     /\ phase' = [phase EXCEPT ![c] = "ending"]
                     /\ UNCHANGED <<key, core, recorder, fresh, checkpoints, pending, sess,
                                    workerVars, wireVars, storeVars, settled, boot, faults>>

\* ... and then closed, outside the recorder's lock.
CloseStoresClosed(c) == /\ phase[c] = "ending"
                        /\ phase' = [phase EXCEPT ![c] = "closed"]
                        /\ UNCHANGED <<key, core, recorder, fresh, checkpoints, pending, sess,
                                       workerVars, wireVars, storeVars, settled, boot, faults>>

\* snapshot and mergeAccessSample: one item per key.  A session that was read
\* as open counts as active; its end time, if stored by now, is taken along
\* and only a merge clears it again.
SampleKeepsCount(group, due) == group
SampleConns(group, due) == group \cap fresh

Sample(k, closed, due) ==
  LET group == {c \in closed \cup due : key[c] = k}
  IN [key |-> k, conns |-> SampleConns(group, due),
      active |-> group \cap due # {},
      ended |-> \/ group \cap due = {}
                \/ \E c \in group : group = {c} /\ phase[c] \in {"ending", "closed"}]

\* Drain's result, one item per key, sorted by key.
Sampled(closed, due) == {Sample(k, closed, due) : k \in {key[c] : c \in closed \cup due}}

Sorted(items) == {list \in [1..Cardinality(items) -> items] :
                    /\ ItemsOf(list) = items
                    /\ \A m, n \in DOMAIN list : m < n => list[m].key < list[n].key}

CollectorInside == \E s \in Slot : worker[s] = "draining"

\* ApplyConfig, ApplyUsers and Close: XrayCore.Close closes the server and
\* every session the recorder lists.
RebuildClose ==
  /\ core = "up" /\ ~CollectorInside
  /\ core' = "closing"
  /\ phase' = [c \in Conn |-> IF c \in recorder THEN "closed" ELSE phase[c]]
  /\ UNCHANGED <<key, recorder, fresh, checkpoints, pending, sess, workerVars, wireVars,
                 storeVars, settled, boot, faults>>

\* The last Drain of the old core goes to pendingAccess; the recorder is
\* dropped with the core, and the next core starts or fails to.
RebuildDrain ==
  /\ core = "closing"
  /\ \E list \in Sorted(Sampled({c \in recorder : phase[c] = "closed"}, {})) :
       pending' = pending \o list
  /\ fresh' = fresh \ recorder
  /\ recorder' = {}
  /\ core' \in {"up", "down"}
  /\ UNCHANGED <<key, phase, checkpoints, sess, workerVars, wireVars, storeVars, settled,
                 boot, faults>>

\* ApplyConfig without a running core.
CoreStarts ==
  /\ core = "down" /\ ~CollectorInside
  /\ core' = "up"
  /\ UNCHANGED <<key, phase, recorder, fresh, checkpoints, pending, sess, workerVars,
                 wireVars, storeVars, settled, boot, faults>>

-----------------------------------------------------------------------------
(* The collector goroutine of session s (collectAndSendAccess).  An error  *)
(* is logged and the goroutine goes on; it returns when its context is     *)
(* done, or when a heartbeat or the traffic collection fails.              *)

Goto(s, place) == worker' = [worker EXCEPT ![s] = place]

\* CollectAccess takes the waiting items and Drain reads which sessions are
\* closed; open ones are taken when their checkpoint is due.
CollectBegin(s) ==
  /\ worker[s] = "idle"
  /\ ~CollectorInside /\ core # "closing"
  /\ \E due \in SUBSET {c \in recorder : phase[c] # "closed"} :
       /\ checkpoints + Cardinality(due) <= MaxCheckpoints
       /\ checkpoints' = checkpoints + Cardinality(due)
       /\ seen' = [seen EXCEPT ![s] =
                     [closed |-> {c \in recorder : phase[c] = "closed"}, due |-> due]]
  /\ hand' = [hand EXCEPT ![s] = pending]
  /\ pending' = <<>>
  /\ Goto(s, "draining")
  /\ UNCHANGED <<key, phase, core, recorder, fresh, sess, todo, wireVars, storeVars,
                 settled, boot, faults>>

\* Drain takes a snapshot of each of them and forgets the closed ones.
CollectEnd(s) ==
  /\ worker[s] = "draining"
  /\ LET closed == seen[s].closed
         due    == seen[s].due
     IN /\ \E list \in Sorted(Sampled(closed, due)) :
             hand' = [hand EXCEPT ![s] = @ \o list]
        /\ fresh' = fresh \ (closed \cup due)
        /\ recorder' = recorder \ closed
  /\ seen' = [seen EXCEPT ![s] = Nothing]
  /\ Goto(s, "collected")
  /\ UNCHANGED <<key, phase, core, checkpoints, pending, sess, todo, wireVars, storeVars,
                 settled, boot, faults>>

\* validateLocalAccessItem, as far as the recorder can get it wrong.
ValidItem(i) == i.active # i.ended

LastOfKey(list) ==
  {n \in DOMAIN list : \A m \in DOMAIN list : list[m].key = list[n].key => m <= n}

\* The upserts of AddAccess, one item after the other: counters of a key add
\* up, the last item decides whether the session is active.
Upserted(table, list) ==
  {a \in table : \A i \in ItemsOf(list) : i.key # a.key} \cup
  {[list[n] EXCEPT !.conns = ConnsOf({i \in table \cup ItemsOf(list) : i.key = list[n].key})]
     : n \in LastOfKey(list)}

Accepts(items) == /\ Len(items) <= MaxItems
                  /\ \A n \in DOMAIN items : ValidItem(items[n])

\* One transaction stores all items ...
AddAccess(s) ==
  /\ worker[s] = "collected"
  /\ \/ hand[s] = <<>>
     \/ sess[s] # "ended" /\ Accepts(hand[s])
  /\ accumulator' = Upserted(accumulator, hand[s])
  /\ hand' = [hand EXCEPT ![s] = <<>>]
  /\ Goto(s, "added")
  /\ UNCHANGED <<planeVars, pending, sess, seen, todo, wireVars, wal, sequence, settled,
                 boot, faults>>

\* ... or none: too many items, an inconsistent one, a cancelled context or a
\* failing store.
AddAccessFails(s) ==
  /\ worker[s] = "collected"
  /\ hand[s] # <<>>
  /\ \/ (sess[s] = "ended" \/ ~Accepts(hand[s])) /\ UNCHANGED faults
     \/ Fault
  /\ Goto(s, "refused")
  /\ UNCHANGED <<planeVars, pending, sess, seen, hand, todo, wireVars, storeVars, settled, boot>>

\* Items beyond the limit are dropped from the front of the list.
DropsItems(s) == pending
RequeueAccess(s) ==
  LET room == MaxItems - Len(pending)
      n    == Len(hand[s])
  IN pending \o (IF n <= room THEN hand[s] ELSE SubSeq(hand[s], n - room + 1, n))

Requeue(s) ==
  /\ worker[s] = "refused"
  /\ Len(pending) <= MaxItems
  /\ pending' = RequeueAccess(s)
  /\ hand' = [hand EXCEPT ![s] = <<>>]
  /\ Goto(s, "idle")
  /\ UNCHANGED <<planeVars, sess, seen, todo, wireVars, storeVars, settled, boot, faults>>

\* ORDER BY created_at, sequence
Before(a, b) == \/ a.created < b.created
                \/ a.created = b.created /\ a.seq < b.seq

Bytes(rows) == Cardinality(UNION {{b} \X b.items : b \in rows})
NotOlder(rows, b) == {a \in rows : ~Before(a, b)}

\* pruneAccessWALTx: the first rows go until both limits hold.
PruneCountsOnly(rows) == {b \in rows : Cardinality(NotOlder(rows, b)) <= MaxBatches}
PruneAccessWAL(rows) ==
  {b \in rows : /\ Cardinality(NotOlder(rows, b)) <= MaxBatches
                /\ Bytes(NotOlder(rows, b)) <= MaxBytes}

FirstItems == {a \in accumulator : Cardinality({b \in accumulator : b.key < a.key}) < BatchItems}

\* One transaction moves the first items into a new row and prunes the log.
DrainAccess(s) ==
  /\ worker[s] = "added"
  /\ sess[s] # "ended"
  /\ Goto(s, "drained")
  /\ \/ accumulator = {} /\ UNCHANGED storeVars
     \/ /\ accumulator # {}
        /\ accumulator' = accumulator \ FirstItems
        /\ sequence' = sequence + 1
        /\ \E at \in CreatedAt :
             wal' = PruneAccessWAL(wal \cup {[seq |-> sequence + 1, created |-> at,
                                              items |-> FirstItems]})
  /\ UNCHANGED <<planeVars, pending, sess, seen, hand, todo, wireVars, settled, boot, faults>>

PendingAccess == {b \in wal : Cardinality({a \in wal : Before(a, b)}) < PendingLimit}

LoadPending(s) ==
  /\ worker[s] = "drained"
  /\ sess[s] # "ended"
  /\ todo' = [todo EXCEPT ![s] = PendingAccess]
  /\ Goto(s, "sending")
  /\ UNCHANGED <<planeVars, pending, sess, seen, hand, wireVars, storeVars, settled, boot, faults>>

Sending(s) == sess[s] = "flush" \/ (sess[s] = "reading" /\ worker[s] = "sending")

SendBatch(s) ==
  /\ Sending(s)
  /\ Len(toServer[s]) < MaxInFlight
  /\ \E b \in todo[s] :
       /\ \A a \in todo[s] : ~Before(a, b)
       /\ toServer' = [toServer EXCEPT ![s] = Append(@, b)]
       /\ todo' = [todo EXCEPT ![s] = @ \ {b}]
  /\ UNCHANGED <<planeVars, pending, sess, worker, seen, hand, toClient, storeVars, settled,
                 boot, faults>>

\* The handshake's rows are written and the goroutine starts, or it returns
\* to its tickers.
SendDone(s) ==
  /\ Sending(s)
  /\ todo[s] = {}
  /\ sess' = [sess EXCEPT ![s] = "reading"]
  /\ Goto(s, "idle")
  /\ UNCHANGED <<planeVars, pending, seen, hand, todo, wireVars, storeVars, settled, boot, faults>>

\* A read or write after AddAccess fails and the round is given up; one in the
\* handshake is logged, and the goroutine starts all the same.
RoundFails(s) ==
  /\ worker[s] \in {"added", "drained", "sending"} \/ sess[s] = "flush"
  /\ \/ sess[s] = "ended" /\ UNCHANGED faults
     \/ sess[s] # "ended" /\ Fault
  /\ sess' = [sess EXCEPT ![s] = IF @ = "flush" THEN "reading" ELSE @]
  /\ todo' = [todo EXCEPT ![s] = {}]
  /\ Goto(s, "idle")
  /\ UNCHANGED <<planeVars, pending, seen, hand, wireVars, storeVars, settled, boot>>

\* The ticker loop sees the cancelled context, or a heartbeat or the traffic
\* collection fails while the session is up.
WorkerReturns(s) ==
  /\ worker[s] = "idle"
  /\ \/ sess[s] = "ended" /\ UNCHANGED faults
     \/ sess[s] = "reading" /\ Fault
  /\ Goto(s, "dead")
  /\ UNCHANGED <<planeVars, pending, sess, seen, hand, todo, wireVars, storeVars, settled, boot>>

-----------------------------------------------------------------------------
(* The session and the process.                                            *)

StartSession(s) ==
  /\ \A t \in Slot : sess[t] = "ended"
  /\ worker[s] = "dead"
  /\ sess' = [sess EXCEPT ![s] = "flush"]
  /\ todo' = [todo EXCEPT ![s] = PendingAccess]
  /\ UNCHANGED <<planeVars, pending, worker, seen, hand, wireVars, storeVars, settled, boot, faults>>

\* Some of the rows still on the wire reach the server, which cannot answer.
EndSession(s) == /\ sess' = [sess EXCEPT ![s] = "ended"]
                 /\ \E n \in 0..Len(toServer[s]) :
                      settled' = settled \cup RowConns(ItemsOf(SubSeq(toServer[s], 1, n)))
                 /\ toServer' = [toServer EXCEPT ![s] = <<>>]
                 /\ toClient' = [toClient EXCEPT ![s] = <<>>]
                 /\ todo' = IF worker[s] = "sending" THEN todo
                            ELSE [todo EXCEPT ![s] = {}]

\* errCh is looked at once a message has been handled.
Continue(s) == IF worker[s] = "dead" THEN EndSession(s)
               ELSE /\ toClient' = [toClient EXCEPT ![s] = Tail(@)]
                    /\ UNCHANGED <<sess, todo, toServer, settled>>

AckDeletes(ack) == TRUE
Deletes(ack) == ack.status = "settled"

\* The read loop handles an access acknowledgement: retry_later keeps the row,
\* an unknown status or a row that is no longer there ends the session.
ReadAck(s) ==
  /\ sess[s] = "reading"
  /\ toClient[s] # <<>>
  /\ LET ack == Head(toClient[s]) IN
       \/ /\ Deletes(ack) /\ ack.row \in wal
          /\ wal' = wal \ {ack.row}
          /\ Continue(s)
       \/ /\ ack.status = "retry_later" /\ ~Deletes(ack)
          /\ Continue(s)
          /\ UNCHANGED wal
       \/ /\ \/ Deletes(ack) /\ ack.row \notin wal
             \/ ack.status = "invalid"
          /\ EndSession(s)
          /\ UNCHANGED wal
  /\ UNCHANGED <<planeVars, pending, worker, seen, hand, accumulator, sequence, boot, faults>>

\* Mutant: the read loop does not look at errCh.
SessionEndsOnBreak(s) ==
  /\ sess[s] # "ended" /\ Fault
  /\ EndSession(s)
  /\ UNCHANGED <<planeVars, pending, worker, seen, hand, storeVars, boot>>
\* The connection breaks, or the goroutine has failed and another message or
\* the read deadline makes the read loop look at it.
SessionEnds(s) ==
  /\ sess[s] # "ended"
  /\ \/ sess[s] = "reading" /\ worker[s] = "dead" /\ UNCHANGED faults
     \/ Fault
  /\ EndSession(s)
  /\ UNCHANGED <<planeVars, pending, worker, seen, hand, storeVars, boot>>

\* Memory is gone, the store is not.
Restart ==
  /\ phase' = [c \in Conn |-> IF phase[c] = "none" THEN "none" ELSE "closed"]
  /\ core' = "down" /\ recorder' = {} /\ fresh' = {} /\ pending' = <<>>
  /\ sess' = [s \in Slot |-> "ended"]
  /\ worker' = [s \in Slot |-> "dead"]
  /\ seen' = [s \in Slot |-> Nothing]
  /\ hand' = [s \in Slot |-> <<>>]
  /\ todo' = [s \in Slot |-> {}]
  /\ toServer' = [s \in Slot |-> <<>>]
  /\ toClient' = [s \in Slot |-> <<>>]
  /\ \E rows \in SUBSET UNION {ItemsOf(toServer[s]) : s \in Slot} :
       settled' = settled \cup RowConns(rows)
  /\ boot' = boot + 1
  /\ UNCHANGED <<key, checkpoints, storeVars>>

Crash == Fault /\ Restart

\* RequeueAccess slices beyond the list when rebuilds have left more than the
\* limit: the goroutine panics and the process dies.
RequeuePanics(s) == /\ worker[s] = "refused"
                    /\ Len(pending) > MaxItems
                    /\ Restart
                    /\ UNCHANGED faults

-----------------------------------------------------------------------------
(* The control server, from how the agent uses it.                         *)

Answer(s, status) ==
  /\ toServer[s] # <<>>
  /\ Len(toClient[s]) < MaxInFlight
  /\ toServer' = [toServer EXCEPT ![s] = Tail(@)]
  /\ toClient' = [toClient EXCEPT ![s] =
                    Append(@, [row |-> Head(toServer[s]), status |-> status])]
  /\ UNCHANGED <<planeVars, pending, sess, workerVars, storeVars, boot>>

\* The server accepts, discards or partly applies a row, which is the same to
\* the agent, or asks for it later or answers something else.
ServerSettles(s) == /\ Answer(s, "settled")
                    /\ settled' = settled \cup ConnsOf(Head(toServer[s]).items)
                    /\ UNCHANGED faults

ServerDefers(s) == /\ Fault
                   /\ \E status \in {"retry_later", "invalid"} : Answer(s, status)
                   /\ UNCHANGED settled

-----------------------------------------------------------------------------
WorkerStep(s) == \/ CollectBegin(s) \/ CollectEnd(s) \/ AddAccess(s) \/ AddAccessFails(s)
                 \/ Requeue(s) \/ DrainAccess(s) \/ LoadPending(s) \/ SendBatch(s)
                 \/ SendDone(s) \/ RoundFails(s)

Next == \/ \E c \in Conn : Start(c) \/ CloseStoresEnd(c) \/ CloseStoresClosed(c)
        \/ RebuildClose \/ RebuildDrain \/ CoreStarts \/ Crash
        \/ \E s \in Slot : \/ WorkerStep(s) \/ WorkerReturns(s) \/ StartSession(s)
                           \/ ReadAck(s) \/ SessionEnds(s) \/ RequeuePanics(s)
                           \/ ServerSettles(s) \/ ServerDefers(s)

Spec == Init /\ [][Next]_vars

\* Goroutines are scheduled, tickers fire, the read loop reads, Run reconnects
\* after its timer, a rebuild that has begun ends, and the server answers.  The
\* mutex goes to a collector that waits for it (Go's mutexes are fair), and a
\* select with its context done is not won by tickers for ever.  Connections,
\* rebuilds and faults need not happen.
Fairness == /\ WF_vars(RebuildDrain)
            /\ WF_vars(\E s \in Slot : StartSession(s))
            /\ \A c \in Conn : WF_vars(CloseStoresClosed(c))
            /\ \A s \in Slot : /\ SF_vars(WorkerStep(s))
                               /\ SF_vars(WorkerReturns(s))
                               /\ WF_vars(ServerSettles(s))
                               /\ WF_vars(ReadAck(s))
                               /\ WF_vars(SessionEnds(s))

FairSpec == Spec /\ Fairness

-----------------------------------------------------------------------------
HandConns == UNION {ConnsOf(ItemsOf(hand[s])) : s \in Slot}
InAgent == fresh \cup HandConns \cup ConnsOf(ItemsOf(pending))
                 \cup ConnsOf(accumulator) \cup RowConns(wal)
Held == InAgent \cup settled

\* Where the count of connection c is, in the memory of the agent or in the
\* accumulator (Unsent), or in a row of the log.
Holding(list, c) == {n \in DOMAIN list : c \in list[n].conns}
Unsent(c) == ({"fresh"} \X ({c} \cap fresh))
             \cup ({"pending"} \X Holding(pending, c))
             \cup ({"hand"} \X (UNION {{s} \X Holding(hand[s], c) : s \in Slot}))
             \cup ({"accumulator"} \X {a \in accumulator : c \in a.conns})
Places(c) == Unsent(c) \cup ({"wal"} \X {b \in wal : c \in ConnsOf(b.items)})

\* Every variable ranges over the values the program can give it; the log
\* keeps to its two limits after every transaction (access.go:235) and the
\* accumulator has one entry per key (access.go:45).
TypeOK == /\ key \in [Conn -> Key] /\ phase \in [Conn -> Phase]
          /\ core \in {"up", "closing", "down"}
          /\ recorder \subseteq Conn /\ fresh \subseteq recorder
          /\ checkpoints \in 0..MaxCheckpoints
          /\ pending \in Seq(Item)
          /\ sess \in [Slot -> {"flush", "reading", "ended"}]
          /\ worker \in [Slot -> Place]
          /\ seen \in [Slot -> [closed : SUBSET Conn, due : SUBSET Conn]]
          /\ hand \in [Slot -> Seq(Item)]
          /\ todo \in [Slot -> SUBSET Row]
          /\ toServer \in [Slot -> Seq(Row)]
          /\ toClient \in [Slot -> Seq([row : Row, status : Status])]
          /\ accumulator \in SUBSET Item
          /\ \A a, b \in accumulator : a.key = b.key => a = b
          /\ wal \in SUBSET Row /\ settled \subseteq Conn
          /\ Cardinality(wal) <= MaxBatches /\ Bytes(wal) <= MaxBytes
          /\ sequence \in Nat /\ boot \in Nat /\ faults \in 0..MaxFaults

\* A connection is counted at most once: its count is in the recorder, in one
\* collected or waiting item, in the accumulator or in one row, whatever was
\* refused, requeued behind a rebuild's samples, resent or stored by a
\* collector that outlives its session (snapshot, access.go:236; RequeueAccess,
\* xray.go:292; TestAccessRecorderEmitsCheckpointAndFinalDeltasWithoutDoubleCounting).
CountedOnce ==
  \A c \in Conn : /\ \A p, q \in Places(c) : p = q
                  /\ c \in settled \ RowConns(wal) => Places(c) = {}

WALFull(w) == Cardinality(w) = MaxBatches \/ Bytes(w) + BatchItems > MaxBytes

\* A connection's count is lost only with the process, with a recorder that
\* took it while its core was being closed, at the limit of the requeued list
\* or at a limit of the log; never by a session that ends, a store that fails,
\* a rebuild or an acknowledgement (collectAndSendAccess, client.go:642).
LostOnlyAtLimits ==
  [][\A c \in Held \ Held' :
       \/ boot' # boot
       \/ core = "closing" /\ c \in fresh /\ phase[c] # "closed"
       \/ c \in HandConns /\ Len(pending') = MaxItems
       \/ WALFull(wal')]_vars

\* AddAccess has refused or will refuse the items for good: one of them is
\* inconsistent, or there are too many.
Blocked == \E list \in {pending} \cup {hand[s] : s \in Slot} : ~Accepts(list)

\* What a closed connection left in the agent is settled by the server or
\* dropped at a limit in the end, although sessions end and the process
\* restarts, unless AddAccess is blocked (collectAndSendAccess, client.go:642).
EventuallySettled ==
  \A c \in Conn :
    (phase[c] = "closed" /\ c \in InAgent) ~> (c \notin InAgent \/ Blocked)

\* What validateLocalAccessItem asserts (access.go:284): an item the recorder
\* produced is active or has ended, not both.
CollectedItemsValid == \A s \in Slot : \A i \in ItemsOf(hand[s]) : ValidItem(i)
=============================================================================
