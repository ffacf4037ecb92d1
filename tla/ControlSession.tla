--------------------------- MODULE ControlSession ---------------------------
(***************************************************************************)
(* The control session of a running agent: the reconnection loop of Run    *)
(* with its backoff, the handshake, the read loop, the goroutines a        *)
(* session starts and the channel their errors end it through, composed    *)
(* with the enrolment and the start of the process (Enrolment).            *)
(*                                                                         *)
(* What messages do to the store and the core is modelled elsewhere        *)
(* (RuntimeSync, TrafficWAL, AccessPipeline, Maintenance).  Here a message *)
(* is a heartbeat acknowledgement, one that may bring the core the node's  *)
(* configuration, or one that ends the session.  Durations are integers of *)
(* 2 * Half values, like time.Duration, so that doubling may overflow.     *)
(***************************************************************************)
EXTENDS Enrolment, Integers

CONSTANTS ReconnectMin, ReconnectMax, Half

ASSUME ReconnectAssumption == /\ {ReconnectMin, ReconnectMax, Half} \subseteq Nat \ {0}
                              /\ ReconnectMin <= ReconnectMax
                              /\ ReconnectMax < Half

VARIABLES
  phase,        \* where Run stands
  delay,        \* Run's delay
  wait,         \* the timer Run last armed, 0 in a new process
  lastWait,     \* history: the timer before that one
  established,  \* the session has seen a heartbeat acknowledgement
  conn,         \* the connection; a lost one carries nothing either way
  broken,       \* a write has failed: every later one fails too
  alive,        \* goroutines of the session that have not returned
  stray,        \* goroutines of sessions that are over have not returned yet
  beat          \* a heartbeat the server has not acknowledged

runVars     == <<phase, delay, wait, lastWait, established>>
linkVars    == <<conn, broken, alive, stray, beat>>
sessionVars == <<runVars, linkVars>>
vars == <<enrolVars, faults, sessionVars>>

Goroutine == {"heartbeat", "maintenance", "keepalive"}
Phase == {"off", "load", "dial", "hello", "reading", "waiting"}

Init == /\ EnrolInit
        /\ phase = "off" /\ delay = ReconnectMin /\ wait = 0 /\ lastWait = 0
        /\ established = FALSE
        /\ conn = "closed" /\ broken = FALSE /\ alive = {} /\ stray = FALSE /\ beat = FALSE

-----------------------------------------------------------------------------
(* Run.                                                                    *)

\* Two's complement.
Wrap(d) == ((d + Half) % (2 * Half)) - Half

\* The timer of reconnectSchedule(delay, ReconnectMin, ReconnectMax, est).
Wait(est) == IF est \/ delay < ReconnectMin THEN ReconnectMin ELSE delay

\* The delay it returns for the next time; mutant: without next < current.
NoOverflowGuard(w) == IF w >= ReconnectMax \/ Wrap(w * 2) > ReconnectMax
                      THEN ReconnectMax ELSE Wrap(w * 2)
NextDelay(w) == IF w >= ReconnectMax \/ Wrap(w * 2) < w \/ Wrap(w * 2) > ReconnectMax
                THEN ReconnectMax ELSE Wrap(w * 2)

\* The deferred calls: the context is cancelled, the connection closed.  Nobody
\* waits for the goroutines.  Mutant: the connection stays open.
LeakConnection == /\ UNCHANGED conn /\ broken' = FALSE /\ beat' = FALSE
                  /\ alive' = {} /\ stray' = (stray \/ alive # {})
CloseLink == /\ conn' = "closed" /\ broken' = FALSE /\ beat' = FALSE
             /\ alive' = {} /\ stray' = (stray \/ alive # {})

\* The session returns and Run arms the timer.
SessionOver(est) ==
  /\ phase' = "waiting"
  /\ established' = est
  /\ lastWait' = wait /\ wait' = Wait(est) /\ delay' = NextDelay(Wait(est))
  /\ CloseLink

TimerFires ==
  /\ phase = "waiting"
  /\ phase' = "load" /\ established' = FALSE
  /\ UNCHANGED <<delay, wait, lastWait, linkVars, faults>>

\* The runtime state is read before the connection is opened.
LoadState ==
  /\ phase = "load"
  /\ \/ /\ phase' = "dial"
        /\ UNCHANGED <<delay, wait, lastWait, established, linkVars, faults>>
     \/ Fault /\ SessionOver(FALSE)

\* DialContext and the write of hello.
Dial ==
  /\ phase = "dial"
  /\ \/ /\ phase' = "hello" /\ conn' = "open"
        /\ UNCHANGED <<delay, wait, lastWait, established, broken, alive, stray, beat, faults>>
     \/ Fault /\ SessionOver(FALSE)

\* hello_ack has come, the pending batches are written, the goroutines start.
HelloAck ==
  /\ phase = "hello" /\ conn = "open"
  /\ phase' = "reading" /\ alive' = Goroutine
  /\ UNCHANGED <<delay, wait, lastWait, established, conn, broken, stray, beat, faults>>

\* No answer within 30 seconds, an invalid one, or a batch is not written.
HelloFails ==
  /\ phase = "hello"
  /\ \/ conn = "lost" /\ UNCHANGED faults
     \/ Fault
  /\ SessionOver(FALSE)

-----------------------------------------------------------------------------
(* A session that reads.                                                   *)

Heartbeat ==
  /\ phase = "reading" /\ conn = "open" /\ ~broken
  /\ "heartbeat" \in alive
  /\ beat' = TRUE
  /\ UNCHANGED <<runVars, conn, broken, alive, stray, faults>>

LoseConnection ==
  /\ conn = "open" /\ Fault
  /\ conn' = "lost" /\ beat' = FALSE
  /\ UNCHANGED <<runVars, broken, alive, stray>>

\* Every goroutine returns with its first error, of which errCh has room for
\* four: the read loop finds one there as soon as one of them is gone.
WriteFails(g) ==
  /\ phase = "reading" /\ g \in alive
  /\ \/ conn = "lost" /\ UNCHANGED faults
     \/ broken /\ UNCHANGED faults
     \/ Fault
  /\ alive' = alive \ {g} /\ broken' = TRUE
  /\ UNCHANGED <<runVars, conn, stray, beat>>

\* Only runHeartbeatAndTraffic gives up on an error of the store.
StoreFails ==
  /\ phase = "reading" /\ "heartbeat" \in alive
  /\ Fault
  /\ alive' = alive \ {"heartbeat"}
  /\ UNCHANGED <<runVars, conn, broken, stray, beat>>

\* The end of the read loop: errCh is looked at after every message.
AfterMessage(est) ==
  \/ alive # Goroutine /\ SessionOver(est)
  \/ /\ alive = Goroutine
     /\ established' = est
     /\ UNCHANGED <<phase, delay, wait, lastWait, conn, broken, alive, stray>>

HeartbeatAck ==
  /\ phase = "reading" /\ conn = "open" /\ beat
  /\ beat' = FALSE
  /\ AfterMessage(TRUE)
  /\ UNCHANGED faults

\* Secrets, configuration and users of the node the certificate names.  With
\* the identity of another enrolment its secrets cannot be opened, and a
\* configuration alone is rejected.
Matched == loaded.cert = loaded.identity

ReceiveConfig ==
  /\ phase = "reading" /\ conn = "open"
  /\ \/ /\ Matched
        /\ served' = node[loaded.identity] /\ database' = node[loaded.identity]
        /\ AfterMessage(established) /\ (phase' = "reading" => UNCHANGED beat)
     \/ /\ ~Matched
        /\ SessionOver(established)
        /\ UNCHANGED <<served, database>>
  /\ UNCHANGED <<files, locked, tokenVars, hostVars, serverVars, wanted, agent, loaded, faults>>

\* A message of any other kind that is handled, when an error waits behind it.
OtherMessage ==
  /\ phase = "reading" /\ conn = "open" /\ alive # Goroutine
  /\ SessionOver(established)
  /\ UNCHANGED faults

\* A frame, an envelope, an acknowledgement or an error message the read loop
\* does not accept, or a close of the connection.
BadMessage ==
  /\ phase = "reading" /\ conn = "open"
  /\ Fault
  /\ SessionOver(established)

\* Mutant: the read loop sets no deadline.
ReadForever ==
  /\ phase = "reading" /\ conn = "lost" /\ Fault
  /\ SessionOver(established)

\* Nothing has come for 2 * HeartbeatInterval + 30 seconds; a pong would have
\* moved the deadline.
ReadTimeout ==
  /\ phase = "reading"
  /\ conn = "lost" \/ "keepalive" \notin alive
  /\ SessionOver(established)
  /\ UNCHANGED faults

\* The server gives up a session without heartbeats.
ServerDrops ==
  /\ phase = "reading" /\ conn = "open" /\ "heartbeat" \notin alive
  /\ SessionOver(established)
  /\ UNCHANGED faults

\* The goroutines of sessions that are over find their context done.  What they
\* still write to the store is modelled in TrafficWAL and AccessPipeline.
StraysReturn ==
  /\ stray /\ stray' = FALSE
  /\ UNCHANGED <<runVars, conn, broken, alive, beat, faults>>

-----------------------------------------------------------------------------
\* A process that starts enters Run; one that stops takes its session along,
\* and every goroutine.
Process ==
  /\ EnrolStep
  /\ \/ running' = running /\ UNCHANGED sessionVars
     \/ /\ running' /\ ~running
        /\ phase' = "load"
        /\ UNCHANGED <<delay, wait, lastWait, established, linkVars>>
     \/ /\ ~running' /\ running
        /\ phase' = "off" /\ delay' = ReconnectMin /\ wait' = 0 /\ lastWait' = 0
        /\ established' = FALSE
        /\ conn' = "closed" /\ broken' = FALSE /\ beat' = FALSE /\ alive' = {} /\ stray' = FALSE

Session == \/ TimerFires \/ LoadState \/ Dial \/ HelloAck \/ HelloFails
           \/ Heartbeat \/ LoseConnection \/ StoreFails
           \/ \E g \in Goroutine : WriteFails(g)
           \/ HeartbeatAck \/ OtherMessage \/ BadMessage
           \/ ReadTimeout \/ ServerDrops \/ StraysReturn

Next == \/ Process
        \/ Session /\ UNCHANGED enrolVars
        \/ ReceiveConfig

Spec == Init /\ [][Next]_vars

\* Timers and the scheduler go on, an installer that was started proceeds, and
\* the service manager starts what it is to keep running; the server answers
\* hello and heartbeats, sends a node what it does not have, and gives up
\* sessions without heartbeats.  Nobody has to start an installation, and nobody
\* starts a service the installer has stopped.
Fairness ==
  /\ WF_vars(Process /\ InstallStep)
  /\ WF_vars(Process /\ (ServiceStart \/ LoadPair))
  /\ WF_vars((TimerFires \/ LoadState \/ Dial \/ HelloAck \/ HelloFails) /\ UNCHANGED enrolVars)
  /\ WF_vars(Heartbeat /\ UNCHANGED enrolVars)
  /\ WF_vars(HeartbeatAck /\ UNCHANGED enrolVars)
  /\ WF_vars(ReceiveConfig)
  /\ WF_vars((ReadTimeout \/ ServerDrops) /\ UNCHANGED enrolVars)
  /\ \A g \in Goroutine : WF_vars(WriteFails(g) /\ UNCHANGED enrolVars)

FairSpec == Spec /\ Fairness

-----------------------------------------------------------------------------
\* Every variable ranges over the values the program can give it; a session
\* exists in a running process only, and its connection from the handshake to
\* the end of the read loop and no longer, however the session ends
\* (runSessionWithEstablished, client.go:139-219).  The goroutines counted in
\* alive are those of the current session; stray ones need only a process.
TypeOK == /\ EnrolTypeOK
          /\ phase \in Phase /\ (phase = "off" <=> ~running)
          /\ delay \in (-Half)..(Half - 1) /\ {wait, lastWait} \subseteq 0..ReconnectMax
          /\ established \in BOOLEAN /\ broken \in BOOLEAN /\ beat \in BOOLEAN
          /\ conn \in {"closed", "open", "lost"}
          /\ alive \subseteq Goroutine /\ stray \in BOOLEAN /\ (stray => running)
          /\ conn # "closed" <=> phase \in {"hello", "reading"}
          /\ phase # "reading" => alive = {} /\ ~broken /\ ~beat

\* The wait before a reconnection is the minimum after a session that was
\* acknowledged a heartbeat and in a new process, and twice the wait before,
\* up to the maximum, after one that was not (README: "the first acknowledged
\* heartbeat resets reconnect backoff ... pre-health failures still retain
\* exponential backoff"), although the doubling may overflow
\* (reconnectSchedule, client.go:103).
BackoffPolicy ==
  phase = "waiting" =>
    wait = IF established \/ lastWait = 0 THEN ReconnectMin
           ELSE IF 2 * lastWait > ReconnectMax THEN ReconnectMax ELSE 2 * lastWait

\* An agent comes back to a session with acknowledged heartbeats and to its
\* node's configuration, however often processes, connections and sessions were
\* cut off (Run, client.go:79; the read deadline, client.go:215; restoreRuntime),
\* unless enrolments have left something in its way: no identity, files of
\* several attempts or that only root can read, a service the installer stopped
\* and did not restart, a binary a rollback removed, or an agent that has loaded
\* certificate and identity of different attempts.
Obstructed == \/ files["identity"] = 0 \/ Torn \/ ~wanted \/ ~binary
              \/ running /\ ~Matched
EventuallyServing ==
  []<>(Obstructed \/ (established /\ phase = "reading" /\ served # NoToken))
=============================================================================
