------------------------ MODULE ControlSessionProofs ------------------------
(***************************************************************************)
(* Proofs about ControlSession and the Enrolment it is composed with, for  *)
(* every set of tokens, every number of attempts and faults and every      *)
(* choice of the reconnection delays.                                      *)
(***************************************************************************)
EXTENDS ControlSession, TLAPS

\* Where an installer stands whose enroll command has succeeded.
Enrolled == {"chown", "service", "health", "fallback"}

\* The files the current attempt has replaced when it stands at s.
Written(s) ==
  {f \in File : \/ f = "key"      /\ s \in {"cert", "ca", "identity", "token"} \cup Enrolled
                \/ f = "cert"     /\ s \in {"ca", "identity", "token"} \cup Enrolled
                \/ f = "ca"       /\ s \in {"identity", "token"} \cup Enrolled
                \/ f = "identity" /\ s \in {"token"} \cup Enrolled}

\* The inductive invariant of an enrolment: an attempt replaces the files in
\* order, none before the server has answered, and keeps its token until the
\* last one is written; an agent that has read an identity, at whatever moment
\* of another enrolment, has one that is not newer than the one on disk.
EnrolIInv ==
  /\ EnrolTypeOK
  /\ install # "idle" => attempt # 0
  /\ \A f \in Written(install) : files[f] = attempt
  /\ install \in {"stop", "request"} => \A f \in File : files[f] < attempt
  /\ install \notin {"idle"} \cup Enrolled => tokenFile # NoToken \/ inTmp
  /\ agent # "down" => loaded.identity # 0 /\ loaded.identity <= files["identity"]
  /\ IdentityIsOldest
  /\ TokenOutlivesEnrolment
  /\ ServesOwnNode

\* What reconnectSchedule means by doubling.
Doubled(w) == IF 2 * w > ReconnectMax THEN ReconnectMax ELSE 2 * w

\* The inductive invariant of Run and its session: delay is always the
\* successor of the timer armed last, so that the next SessionOver waits as
\* the policy says.
SessionIInv ==
  /\ phase \in Phase /\ (phase = "off" <=> ~running)
  /\ delay \in (-Half)..(Half - 1) /\ wait \in 0..ReconnectMax /\ lastWait \in 0..ReconnectMax
  /\ established \in BOOLEAN /\ broken \in BOOLEAN /\ beat \in BOOLEAN
  /\ conn \in {"closed", "open", "lost"}
  /\ alive \subseteq Goroutine /\ stray \in BOOLEAN /\ (stray => running)
  /\ conn # "closed" <=> phase \in {"hello", "reading"}
  /\ phase # "reading" => alive = {} /\ ~broken /\ ~beat
  /\ wait # 0 => wait >= ReconnectMin
  /\ delay = IF wait = 0 THEN ReconnectMin ELSE Doubled(wait)
  /\ BackoffPolicy

IInv == EnrolIInv /\ SessionIInv

-----------------------------------------------------------------------------
(* The backoff.                                                            *)

\* Doubling a delay within the maximum overflows to a negative duration at
\* worst, which next < current notices (reconnectSchedule, client.go:103).
LEMMA NextDelayDoubles ==
  ASSUME NEW w \in ReconnectMin..ReconnectMax
  PROVE  NextDelay(w) = Doubled(w)
  <1> USE ReconnectAssumption
  <1> DEFINE h == Half
             x == w * 2 + h
             m == 2 * h
  <1>1. h \in Nat /\ w \in Nat /\ w < h /\ w > 0 /\ ReconnectMax \in Nat /\ ReconnectMax < h
    OBVIOUS
  <1>2. x \in Nat /\ m \in Nat /\ 0 < m /\ x < 2 * m
    BY <1>1
  <1>3. x < m => x % m = x
    BY <1>2
  <1>4. x >= m => x % m = x - m
    BY <1>2
  <1>5. Wrap(w * 2) = (x % m) - h
    BY DEF Wrap
  <1> HIDE DEF x, m
  <1>6. x < m => Wrap(w * 2) = 2 * w
    BY <1>1, <1>3, <1>5 DEF x
  <1>7. x >= m => Wrap(w * 2) < w /\ 2 * w > ReconnectMax
    BY <1>1, <1>4, <1>5 DEF x, m
  <1> QED
    BY <1>1, <1>2, <1>6, <1>7 DEF NextDelay, Doubled

-----------------------------------------------------------------------------
(* Enrolment.                                                              *)

\* A host starts without files.
LEMMA EnrolInitIInv == EnrolInit => EnrolIInv
  <1> SUFFICES ASSUME EnrolInit PROVE EnrolIInv
    OBVIOUS
  <1> USE EnrolmentAssumption DEF EnrolInit
  <1>1. EnrolTypeOK
    <2>1. files \in [File -> 0..attempt] /\ loaded \in [cert : 0..attempt, identity : 0..attempt]
      BY DEF Nothing
    <2>2. attempt \in 0..MaxAttempts /\ faults \in 0..MaxFaults
      OBVIOUS
    <2>3. node \in [Attempt -> Token \cup {NoToken}]
      OBVIOUS
    <2> QED
      BY <2>1, <2>2, <2>3 DEF EnrolTypeOK, Step
  <1>2. IdentityIsOldest /\ TokenOutlivesEnrolment /\ ServesOwnNode
    BY DEF IdentityIsOldest, TokenOutlivesEnrolment, ServesOwnNode, File, running
  <1> QED
    BY <1>1, <1>2 DEF EnrolIInv, Written, Enrolled

\* A process that is gone has loaded and serves nothing.
LEMMA GoneIsEmpty ==
  ASSUME EnrolIInv, ProcessGone, UNCHANGED attempt
  PROVE  /\ agent' = "down" /\ ~running' /\ served' = NoToken
         /\ loaded' \in [cert : 0..attempt', identity : 0..attempt']
  BY EnrolmentAssumption DEF ProcessGone, Nothing, EnrolIInv, EnrolTypeOK, running

\* A step that counts one fault at most keeps within the bound.
LEMMA FaultBounded ==
  ASSUME EnrolIInv, Fault \/ UNCHANGED faults
  PROVE  faults' \in 0..MaxFaults
  BY EnrolmentAssumption DEF EnrolIInv, EnrolTypeOK, Fault

\* A step that leaves files and attempt alone keeps what EnrolIInv says of the
\* agent when it leaves the agent alone or ends it.
LEMMA AgentKept ==
  ASSUME EnrolIInv, UNCHANGED <<files, attempt>>,
         ProcessGone \/ UNCHANGED <<agent, loaded, served>>,
         UNCHANGED node
  PROVE  /\ agent' # "down" => loaded'.identity # 0 /\ loaded'.identity <= files'["identity"]
         /\ agent' \in {"down", "loading", "up"}
         /\ loaded' \in [cert : 0..attempt', identity : 0..attempt']
         /\ served' \in Token \cup {NoToken}
         /\ IdentityIsOldest' /\ ServesOwnNode'
  <1>1. CASE ProcessGone
    BY <1>1, GoneIsEmpty DEF EnrolIInv, EnrolTypeOK, IdentityIsOldest, ServesOwnNode
  <1>2. CASE UNCHANGED <<agent, loaded, served>>
    BY <1>2 DEF EnrolIInv, EnrolTypeOK, IdentityIsOldest, ServesOwnNode, running
  <1> QED
    BY <1>1, <1>2

\* The ways out of the installer keep the invariant: the token that is lost with
\* the temporary directory is not the operator's file.
LEMMA ExitIInv ==
  ASSUME EnrolIInv, install # "idle", InstallExits, Fault \/ UNCHANGED faults,
         binary' \in BOOLEAN, wanted' \in BOOLEAN, database' \in Token \cup {NoToken},
         ProcessGone \/ UNCHANGED <<agent, loaded, served>>
  PROVE  EnrolIInv'
  <1> USE DEF InstallExits, Trap, serverVars
  <1>1. faults' \in 0..MaxFaults
    BY FaultBounded
  <1>2. /\ agent' # "down" => loaded'.identity # 0 /\ loaded'.identity <= files'["identity"]
        /\ agent' \in {"down", "loading", "up"}
        /\ loaded' \in [cert : 0..attempt', identity : 0..attempt']
        /\ served' \in Token \cup {NoToken}
        /\ IdentityIsOldest' /\ ServesOwnNode'
    BY AgentKept
  <1>3. EnrolTypeOK'
    BY <1>1, <1>2 DEF EnrolIInv, EnrolTypeOK, Step
  <1>4. TokenOutlivesEnrolment'
    BY DEF EnrolIInv, TokenOutlivesEnrolment, Enrolled, Written
  <1> QED
    BY <1>2, <1>3, <1>4 DEF EnrolIInv, Written, Enrolled

\* Every step of the installer, of enroll and of the service manager.
LEMMA EnrolStepIInv == EnrolIInv /\ EnrolStep => EnrolIInv'
  <1> SUFFICES ASSUME EnrolIInv, EnrolStep PROVE EnrolIInv'
    OBVIOUS
  <1> USE EnrolmentAssumption
  <1> USE DEF tokenVars, hostVars, serverVars, processVars
  <1>0. /\ \A v \in {database, served} : v \in Token \cup {NoToken}
        /\ \A v \in backup : v \in Token \cup {NoToken}
    BY DEF EnrolIInv, EnrolTypeOK
  <1>1. ASSUME NEW t \in Token, NEW tmp \in BOOLEAN, InstallStart(t, tmp) PROVE EnrolIInv'
    <2>1. attempt' \in 0..MaxAttempts /\ attempt' # 0 /\ \A k \in 0..attempt : k \in 0..attempt'
      BY <1>1 DEF InstallStart, EnrolIInv, EnrolTypeOK
    <2>2. files' \in [File -> 0..attempt'] /\ \A f \in File : files'[f] < attempt'
      BY <1>1, <2>1 DEF InstallStart, EnrolIInv, EnrolTypeOK
    <2>3. loaded' \in [cert : 0..attempt', identity : 0..attempt']
      BY <1>1, <2>1 DEF InstallStart, EnrolIInv, EnrolTypeOK
    <2>4. EnrolTypeOK'
      BY <1>1, <2>1, <2>2, <2>3 DEF InstallStart, EnrolIInv, EnrolTypeOK, Step
    <2>5. IdentityIsOldest' /\ ServesOwnNode' /\ TokenOutlivesEnrolment'
      BY <1>1 DEF InstallStart, EnrolIInv, IdentityIsOldest, ServesOwnNode,
                  TokenOutlivesEnrolment, running
    <2> QED
      BY <1>1, <2>1, <2>2, <2>4, <2>5 DEF InstallStart, EnrolIInv, Written, Enrolled
  <1>2. CASE StopAgent
    <2>1. faults' \in 0..MaxFaults
      BY <1>2, FaultBounded DEF StopAgent
    <2>2. ProcessGone \/ UNCHANGED <<agent, loaded, served>>
      BY <1>2 DEF StopAgent
    <2>3. /\ agent' # "down" => loaded'.identity # 0 /\ loaded'.identity <= files'["identity"]
          /\ agent' \in {"down", "loading", "up"}
          /\ loaded' \in [cert : 0..attempt', identity : 0..attempt']
          /\ served' \in Token \cup {NoToken}
          /\ IdentityIsOldest' /\ ServesOwnNode'
      BY <1>2, <2>2, AgentKept DEF StopAgent
    <2>4. database' \in Token \cup {NoToken} /\ backup' \subseteq Token \cup {NoToken} /\ wanted' \in BOOLEAN
      BY <1>2, <1>0 DEF StopAgent, EnrolIInv, EnrolTypeOK
    <2>5. EnrolTypeOK'
      BY <1>2, <2>1, <2>3, <2>4 DEF StopAgent, EnrolIInv, EnrolTypeOK, Step
    <2> QED
      BY <1>2, <2>3, <2>5 DEF StopAgent, EnrolIInv, Written, Enrolled, TokenOutlivesEnrolment
  <1>3. CASE Enroll
    <2>1. faults' \in 0..MaxFaults
      BY <1>3, FaultBounded DEF Enroll
    <2>2. tokenFile \in Token
      BY <1>3 DEF Enroll, EnrolIInv, EnrolTypeOK
    <2>3. node' \in [Attempt -> Token \cup {NoToken}]
      BY <1>3, <2>2 DEF Enroll, EnrolIInv, EnrolTypeOK
    <2>4. EnrolTypeOK'
      BY <1>3, <2>1, <2>2, <2>3 DEF Enroll, EnrolIInv, EnrolTypeOK, Step, File
    <2>5. running => loaded.identity # attempt /\ loaded.identity \in Attempt
      <3>1. attempt \in Nat /\ files["identity"] \in Nat /\ files["identity"] < attempt
            /\ loaded.identity \in 0..attempt /\ attempt <= MaxAttempts
        BY <1>3 DEF Enroll, EnrolIInv, EnrolTypeOK, File
      <3> QED
        BY <3>1 DEF EnrolIInv, running, Attempt
    <2>6. ServesOwnNode'
      BY <1>3, <2>5 DEF Enroll, EnrolIInv, EnrolTypeOK, ServesOwnNode, running
    <2>7. IdentityIsOldest'
      BY <1>3 DEF Enroll, EnrolIInv, IdentityIsOldest, running
    <2> QED
      BY <1>3, <2>4, <2>6, <2>7 DEF Enroll, EnrolIInv, Written, Enrolled, File, TokenOutlivesEnrolment
  <1>4. CASE EnrollRefused
    <2>1. faults' \in 0..MaxFaults
      BY <1>4, FaultBounded DEF EnrollRefused
    <2>2. IdentityIsOldest' /\ ServesOwnNode'
      BY <1>4 DEF EnrollRefused, EnrolIInv, IdentityIsOldest, ServesOwnNode, running
    <2>3. EnrolTypeOK'
      BY <1>4, <2>1 DEF EnrollRefused, EnrolIInv, EnrolTypeOK, Step
    <2> QED
      BY <1>4, <2>2, <2>3 DEF EnrollRefused, EnrolIInv, Written, Enrolled, TokenOutlivesEnrolment
  <1>5. CASE WriteFile
    <2>0. install \in File /\ attempt \in Nat /\ attempt # 0
      BY <1>5 DEF WriteFile, EnrolIInv, EnrolTypeOK, File
    <2>1. faults' \in 0..MaxFaults
      BY <1>5, FaultBounded DEF WriteFile
    <2>2. /\ files' \in [File -> 0..attempt] /\ locked' \subseteq Private
          /\ \A f \in File : files'[f] = files[f] \/ (f = install /\ files'[f] = attempt)
          /\ \A f \in File : files'[f] >= files[f]
      BY <1>5, <2>0 DEF WriteFile, EnrolIInv, EnrolTypeOK
    <2>3. install' \in File \cup {"token", "rollback"}
      BY <1>5 DEF WriteFile, WriteOrder, File
    <2>4. EnrolTypeOK'
      BY <1>5, <2>1, <2>2, <2>3 DEF WriteFile, EnrolIInv, EnrolTypeOK, Step, File
    <2>5. \A f \in Written(install') : files'[f] = attempt
      BY <1>5, <2>0, <2>2 DEF WriteFile, WriteOrder, EnrolIInv, EnrolTypeOK, Written, Enrolled, File
    <2>6. IdentityIsOldest'
      <3>1. CASE files'["identity"] = files["identity"]
        BY <1>5, <2>2, <3>1 DEF WriteFile, EnrolIInv, EnrolTypeOK, IdentityIsOldest, running, File
      <3>2. CASE files'["identity"] # files["identity"]
        <4>1. install = "identity" /\ files'["identity"] = attempt
          BY <2>2, <3>2 DEF File
        <4>2. \A f \in File : files[f] = attempt \/ f = "identity"
          BY <4>1 DEF EnrolIInv, Written, File
        <4>3. \A f \in File : files'[f] = attempt
          BY <2>2, <4>1, <4>2
        <4> QED
          BY <1>5, <2>0, <4>3 DEF WriteFile, EnrolIInv, IdentityIsOldest, running, File
      <3> QED
        BY <3>1, <3>2
    <2>7. agent # "down" => loaded.identity <= files'["identity"]
      BY <2>0, <2>2 DEF EnrolIInv, EnrolTypeOK, File
    <2>8. ServesOwnNode'
      BY <1>5 DEF WriteFile, EnrolIInv, ServesOwnNode, running
    <2> QED
      BY <1>5, <2>0, <2>3, <2>4, <2>5, <2>6, <2>7, <2>8
      DEF WriteFile, EnrolIInv, Enrolled, File, TokenOutlivesEnrolment
  <1>6. CASE RemoveToken
    <2>1. faults' \in 0..MaxFaults
      BY <1>6, FaultBounded DEF RemoveToken
    <2>2. IdentityIsOldest' /\ ServesOwnNode'
      BY <1>6 DEF RemoveToken, EnrolIInv, IdentityIsOldest, ServesOwnNode, running
    <2>3. EnrolTypeOK'
      BY <1>6, <2>1 DEF RemoveToken, EnrolIInv, EnrolTypeOK, Step
    <2>4. \A f \in File : files[f] = attempt
      BY <1>6 DEF RemoveToken, EnrolIInv, Written, File
    <2> QED
      BY <1>6, <2>2, <2>3, <2>4 DEF RemoveToken, EnrolIInv, Written, Enrolled, TokenOutlivesEnrolment
  <1>7. CASE Chown
    <2>1. IdentityIsOldest' /\ ServesOwnNode'
      BY <1>7 DEF Chown, EnrolIInv, IdentityIsOldest, ServesOwnNode, running
    <2>2. EnrolTypeOK'
      BY <1>7 DEF Chown, EnrolIInv, EnrolTypeOK, Step
    <2> QED
      BY <1>7, <2>1, <2>2 DEF Chown, EnrolIInv, Written, Enrolled, TokenOutlivesEnrolment
  <1>8. CASE RestartAgent
    <2>1. faults' \in 0..MaxFaults
      BY <1>8, FaultBounded DEF RestartAgent
    <2>2. /\ agent' # "down" => loaded'.identity # 0 /\ loaded'.identity <= files'["identity"]
          /\ agent' \in {"down", "loading", "up"}
          /\ loaded' \in [cert : 0..attempt', identity : 0..attempt']
          /\ served' \in Token \cup {NoToken}
          /\ IdentityIsOldest' /\ ServesOwnNode'
      BY <1>8, AgentKept DEF RestartAgent
    <2>3. EnrolTypeOK'
      BY <1>8, <2>1, <2>2 DEF RestartAgent, EnrolIInv, EnrolTypeOK, Step
    <2> QED
      BY <1>8, <2>2, <2>3 DEF RestartAgent, EnrolIInv, Written, Enrolled, TokenOutlivesEnrolment
  <1>9. CASE HealthCheck
    <2>1. CASE InstallExits /\ UNCHANGED faults
      BY <1>9, <2>1, ExitIInv DEF HealthCheck, EnrolIInv, EnrolTypeOK
    <2>2. CASE /\ Fault /\ install' = "fallback"
               /\ UNCHANGED <<files, locked, tokenVars, attempt, hadBinary, backup, serverVars>>
      <3>1. faults' \in 0..MaxFaults
        BY <2>2, FaultBounded
      <3>2. IdentityIsOldest' /\ ServesOwnNode'
        BY <1>9, <2>2 DEF HealthCheck, EnrolIInv, IdentityIsOldest, ServesOwnNode, running
      <3>3. EnrolTypeOK'
        BY <1>9, <2>2, <3>1 DEF HealthCheck, EnrolIInv, EnrolTypeOK, Step
      <3> QED
        BY <1>9, <2>2, <3>2, <3>3 DEF HealthCheck, EnrolIInv, Written, Enrolled, TokenOutlivesEnrolment
    <2> QED
      BY <1>9, <2>1, <2>2 DEF HealthCheck
  <1>10. CASE Rollback
    <2>1. database' \in Token \cup {NoToken}
      BY <1>10, <1>0 DEF Rollback
    <2>2. binary' \in BOOLEAN /\ wanted' \in BOOLEAN
      BY <1>10 DEF Rollback, EnrolIInv, EnrolTypeOK
    <2>3. ProcessGone \/ UNCHANGED <<agent, loaded, served>>
      BY <1>10 DEF Rollback
    <2>4. install # "idle" /\ InstallExits /\ (Fault \/ UNCHANGED faults)
      BY <1>10 DEF Rollback
    <2> QED
      BY <2>1, <2>2, <2>3, <2>4, ExitIInv
  <1>11. CASE InstallDies
    BY <1>11, ExitIInv DEF InstallDies, EnrolIInv, EnrolTypeOK
  <1>12. CASE ServiceStart
    <2>1. files["identity"] \in 0..attempt /\ files["identity"] # 0
      BY <1>12 DEF ServiceStart, EnrolIInv, EnrolTypeOK, File
    <2>2. /\ loaded' \in [cert : 0..attempt, identity : 0..attempt]
          /\ loaded'.identity = files["identity"]
      BY <1>12, <2>1 DEF ServiceStart, Nothing, EnrolIInv, EnrolTypeOK
    <2>3. served = NoToken /\ ~running'
      BY <1>12 DEF ServiceStart, EnrolIInv, ServesOwnNode, running
    <2>4. EnrolTypeOK'
      BY <1>12, <2>2 DEF ServiceStart, EnrolIInv, EnrolTypeOK
    <2>5. IdentityIsOldest' /\ ServesOwnNode'
      BY <1>12, <2>3 DEF ServiceStart, EnrolIInv, IdentityIsOldest, ServesOwnNode
    <2> QED
      BY <1>12, <2>1, <2>2, <2>4, <2>5 DEF ServiceStart, EnrolIInv, Written, Enrolled, TokenOutlivesEnrolment
  <1>13. CASE LoadPair
    <2>1. loaded.identity \in Attempt /\ node[loaded.identity] \in Token \cup {NoToken}
      BY <1>13 DEF LoadPair, EnrolIInv, EnrolTypeOK, Attempt
    <2>2. /\ agent' # "down" => loaded'.identity = loaded.identity /\ loaded'.cert = files["cert"]
          /\ agent' \in {"down", "up"}
          /\ loaded' \in [cert : 0..attempt, identity : 0..attempt]
          /\ {served', database'} \subseteq Token \cup {NoToken}
          /\ served' # NoToken => agent' = "up" /\ served' = node[loaded.identity]
      <3>1. CASE ProcessGone /\ UNCHANGED database
        BY <1>0, <1>13, <3>1, GoneIsEmpty DEF LoadPair
      <3>2. CASE /\ agent' = "up" /\ loaded' = [loaded EXCEPT !.cert = files["cert"]]
                 /\ served' = RestoreRuntime(node[loaded.identity])
                 /\ database' = IF database = node[loaded.identity] THEN database ELSE NoToken
        BY <1>0, <2>1, <3>2 DEF RestoreRuntime, EnrolIInv, EnrolTypeOK, File
      <3> QED
        BY <1>13, <3>1, <3>2 DEF LoadPair
    <2>3. IdentityIsOldest'
      BY <1>13, <2>2 DEF LoadPair, EnrolIInv, EnrolTypeOK, IdentityIsOldest, running, File
    <2>4. ServesOwnNode'
      BY <1>13, <2>2 DEF LoadPair, ServesOwnNode, running
    <2>5. EnrolTypeOK'
      BY <1>13, <2>2 DEF LoadPair, EnrolIInv, EnrolTypeOK
    <2> QED
      BY <1>13, <2>2, <2>3, <2>4, <2>5 DEF LoadPair, EnrolIInv, Written, Enrolled, TokenOutlivesEnrolment
  <1>14. CASE ProcessDies
    <2>1. faults' \in 0..MaxFaults
      BY <1>14, FaultBounded DEF ProcessDies
    <2>2. /\ agent' = "down" /\ served' = NoToken
          /\ loaded' \in [cert : 0..attempt', identity : 0..attempt']
          /\ IdentityIsOldest' /\ ServesOwnNode'
      BY <1>14, GoneIsEmpty, AgentKept DEF ProcessDies
    <2>3. EnrolTypeOK'
      BY <1>14, <2>1, <2>2 DEF ProcessDies, EnrolIInv, EnrolTypeOK
    <2> QED
      BY <1>14, <2>2, <2>3 DEF ProcessDies, EnrolIInv, Written, Enrolled, TokenOutlivesEnrolment
  <1>15. CASE Interrupted
    <2>1. faults' \in 0..MaxFaults
      BY <1>15, FaultBounded DEF Interrupted
    <2>2. /\ loaded' \in [cert : 0..attempt', identity : 0..attempt']
          /\ IdentityIsOldest' /\ ServesOwnNode'
      BY <1>15, AgentKept DEF Interrupted, Trap
    <2>3. EnrolTypeOK'
      BY <1>15, <2>1, <2>2 DEF Interrupted, Trap, EnrolIInv, EnrolTypeOK
    <2> QED
      BY <1>15, <2>2, <2>3 DEF Interrupted, Trap, EnrolIInv, Written, Enrolled, TokenOutlivesEnrolment
  <1> QED
    BY <1>1, <1>2, <1>3, <1>4, <1>5, <1>6, <1>7, <1>8, <1>9, <1>10, <1>11, <1>12, <1>13, <1>14, <1>15
    DEF EnrolStep, InstallStep

\* A step of the session touches the enrolment by counting a fault at most.
LEMMA SessionKeepsEnrol ==
  ASSUME EnrolIInv, UNCHANGED enrolVars, Fault \/ UNCHANGED faults
  PROVE  EnrolIInv'
  <1>1. faults' \in 0..MaxFaults
    BY FaultBounded
  <1> QED
    BY <1>1 DEF EnrolIInv, EnrolTypeOK, IdentityIsOldest, TokenOutlivesEnrolment, ServesOwnNode,
                enrolVars, tokenVars, hostVars, serverVars, processVars, Written, running

-----------------------------------------------------------------------------
(* The session.                                                            *)

\* The delay of a new process is a duration.
LEMMA FirstDelay == ReconnectMin \in (-Half)..(Half - 1) /\ 0 \in 0..ReconnectMax
  BY ReconnectAssumption

\* However a session ends, Run arms the timer the policy asks for.
LEMMA OverIsPolicy ==
  ASSUME SessionIInv, NEW est \in BOOLEAN, SessionOver(est), running'
  PROVE  SessionIInv'
  <1> USE ReconnectAssumption
  <1> DEFINE w == Wait(est)
  <1>1. w \in ReconnectMin..ReconnectMax
    BY DEF Wait, SessionIInv, Doubled
  <1>2. /\ delay' = Doubled(w) /\ wait' = w /\ lastWait' = wait
    BY <1>1, NextDelayDoubles DEF SessionOver
  <1>3. delay' \in (-Half)..(Half - 1)
    BY <1>1, <1>2 DEF Doubled
  <1>4. w = IF est \/ wait = 0 THEN ReconnectMin ELSE Doubled(wait)
    <2>1. delay >= ReconnectMin /\ (wait = 0 => delay = ReconnectMin)
                               /\ (wait # 0 => delay = Doubled(wait))
      BY DEF SessionIInv, Doubled
    <2>2. delay \in Int
      BY DEF SessionIInv
    <2>3. CASE est
      BY <2>3 DEF Wait
    <2>4. CASE ~est
      BY <2>1, <2>2, <2>4 DEF Wait
    <2> QED
      BY <2>3, <2>4
  <1>5. BackoffPolicy'
    BY <1>2, <1>4 DEF BackoffPolicy, Doubled, SessionOver
  <1>6. /\ wait' \in 0..ReconnectMax /\ wait' # 0 /\ wait' >= ReconnectMin
        /\ lastWait' \in 0..ReconnectMax
    BY <1>1, <1>2 DEF SessionIInv
  <1> QED
    BY <1>2, <1>3, <1>5, <1>6 DEF SessionOver, CloseLink, SessionIInv, Phase

\* A step of the session keeps the delay the successor of the timer armed last.
LEMMA SessionStepIInv ==
  ASSUME SessionIInv, Session, UNCHANGED enrolVars
  PROVE  SessionIInv' /\ (Fault \/ UNCHANGED faults)
  <1>0. running' = running
    BY DEF enrolVars, processVars, running
  <1>1. ASSUME NEW est \in BOOLEAN, SessionOver(est), phase # "off"
        PROVE  SessionIInv'
    BY <1>0, <1>1, OverIsPolicy DEF SessionIInv
  <1> USE DEF runVars, linkVars
  <1>2. CASE TimerFires
    BY <1>0, <1>2 DEF TimerFires, SessionIInv, Phase, BackoffPolicy, Doubled
  <1>3. CASE LoadState
    <2>1. CASE SessionOver(FALSE)
      BY <1>1, <1>3, <2>1 DEF LoadState
    <2>2. CASE /\ phase' = "dial"
               /\ UNCHANGED <<delay, wait, lastWait, established, linkVars, faults>>
      BY <1>0, <1>3, <2>2 DEF LoadState, SessionIInv, Phase, BackoffPolicy, Doubled
    <2> QED
      BY <1>3, <2>1, <2>2 DEF LoadState
  <1>4. CASE Dial
    <2>1. CASE SessionOver(FALSE)
      BY <1>1, <1>4, <2>1 DEF Dial
    <2>2. CASE /\ phase' = "hello" /\ conn' = "open"
               /\ UNCHANGED <<delay, wait, lastWait, established, broken, alive, stray, beat, faults>>
      BY <1>0, <1>4, <2>2 DEF Dial, SessionIInv, Phase, BackoffPolicy, Doubled
    <2> QED
      BY <1>4, <2>1, <2>2 DEF Dial
  <1>5. CASE HelloAck
    BY <1>0, <1>5 DEF HelloAck, SessionIInv, Phase, BackoffPolicy, Doubled
  <1>6. CASE HelloFails
    BY <1>1, <1>6 DEF HelloFails
  <1>7. CASE Heartbeat
    BY <1>0, <1>7 DEF Heartbeat, SessionIInv, BackoffPolicy, Doubled
  <1>8. CASE LoseConnection
    BY <1>0, <1>8 DEF LoseConnection, SessionIInv, BackoffPolicy, Doubled
  <1>9. CASE StoreFails
    BY <1>0, <1>9 DEF StoreFails, SessionIInv, BackoffPolicy, Doubled
  <1>10. ASSUME NEW g \in Goroutine, WriteFails(g)
         PROVE  SessionIInv' /\ (Fault \/ UNCHANGED faults)
    BY <1>0, <1>10 DEF WriteFails, SessionIInv, BackoffPolicy, Doubled
  <1>11. CASE HeartbeatAck
    BY <1>0, <1>1, <1>11 DEF HeartbeatAck, AfterMessage, SessionIInv, BackoffPolicy, Doubled
  <1>12. CASE OtherMessage \/ BadMessage \/ ReadTimeout \/ ServerDrops
    <2>1. established \in BOOLEAN
      BY DEF SessionIInv
    <2> QED
      BY <1>1, <1>12, <2>1 DEF OtherMessage, BadMessage, ReadTimeout, ServerDrops
  <1>13. CASE StraysReturn
    BY <1>0, <1>13 DEF StraysReturn, SessionIInv, BackoffPolicy, Doubled
  <1> QED
    BY <1>2, <1>3, <1>4, <1>5, <1>6, <1>7, <1>8, <1>9, <1>10, <1>11, <1>12, <1>13 DEF Session

\* The message that brings a configuration changes the database and the core
\* as well (applyDesiredConfig, client.go:474).
LEMMA ReceiveConfigIInv ==
  ASSUME EnrolIInv, SessionIInv, ReceiveConfig
  PROVE  EnrolIInv' /\ SessionIInv'
  <1>1. running /\ running' = running /\ established \in BOOLEAN /\ phase # "off"
    BY DEF SessionIInv, ReceiveConfig, running
  <1>2. SessionIInv'
    <2>1. CASE SessionOver(established)
      BY <1>1, <2>1, OverIsPolicy
    <2>2. CASE /\ UNCHANGED <<phase, delay, wait, lastWait, conn, broken, alive, stray, established>>
               /\ phase' = "reading" => UNCHANGED beat
      BY <1>1, <2>2 DEF ReceiveConfig, SessionIInv, BackoffPolicy, Doubled
    <2> QED
      BY <2>1, <2>2 DEF ReceiveConfig, AfterMessage
  <1>3. EnrolIInv'
    <2>1. loaded.identity \in Attempt
      BY <1>1, EnrolmentAssumption DEF EnrolIInv, EnrolTypeOK, Attempt, running
    <2>2. {served', database'} \subseteq Token \cup {NoToken}
      BY <2>1 DEF ReceiveConfig, EnrolIInv, EnrolTypeOK
    <2>3. served' # NoToken => running' /\ served' = node'[loaded'.identity]
      BY <1>1 DEF ReceiveConfig, EnrolIInv, ServesOwnNode, serverVars
    <2> QED
      BY <1>1, <2>2, <2>3
      DEF ReceiveConfig, EnrolIInv, EnrolTypeOK, IdentityIsOldest, TokenOutlivesEnrolment,
          ServesOwnNode, tokenVars, hostVars, serverVars, Written, running
  <1> QED
    BY <1>2, <1>3

\* A process that starts enters Run with the delay of a new process; one that
\* stops takes its session along (main.go:34, client.go:79).
LEMMA ProcessIInv ==
  ASSUME EnrolIInv, SessionIInv, Process
  PROVE  EnrolIInv' /\ SessionIInv'
  <1>1. EnrolIInv'
    BY EnrolStepIInv DEF Process
  <1>2. SessionIInv'
    <2>1. CASE running' = running /\ UNCHANGED sessionVars
      BY <2>1 DEF SessionIInv, sessionVars, runVars, linkVars, BackoffPolicy, Doubled
    <2>2. CASE /\ running' /\ ~running
               /\ phase' = "load"
               /\ UNCHANGED <<delay, wait, lastWait, established, linkVars>>
      BY <2>2 DEF SessionIInv, linkVars, Phase, BackoffPolicy, Doubled
    <2>3. CASE /\ ~running' /\ running
               /\ phase' = "off" /\ delay' = ReconnectMin /\ wait' = 0 /\ lastWait' = 0
               /\ established' = FALSE
               /\ conn' = "closed" /\ broken' = FALSE /\ beat' = FALSE
               /\ alive' = {} /\ stray' = FALSE
      BY <2>3, FirstDelay DEF SessionIInv, Phase, BackoffPolicy, Doubled
    <2> QED
      BY <2>1, <2>2, <2>3 DEF Process
  <1> QED
    BY <1>1, <1>2

-----------------------------------------------------------------------------
(* The theorems.                                                           *)

\* The invariant holds initially.
LEMMA InitIInv == Init => IInv
  <1> SUFFICES ASSUME Init PROVE EnrolIInv /\ SessionIInv
    BY DEF IInv
  <1>1. EnrolIInv
    BY EnrolInitIInv DEF Init
  <1>2. running = FALSE
    BY DEF Init, EnrolInit, running
  <1> QED
    BY <1>1, <1>2, FirstDelay
    DEF Init, SessionIInv, Phase, BackoffPolicy, Doubled

\* Every step keeps the invariant, whether of the session or of the installer.
LEMMA StepIInv == IInv /\ [Next]_vars => IInv'
  <1> SUFFICES ASSUME EnrolIInv, SessionIInv, [Next]_vars PROVE EnrolIInv' /\ SessionIInv'
    BY DEF IInv
  <1>1. CASE Process
    BY <1>1, ProcessIInv
  <1>2. CASE Session /\ UNCHANGED enrolVars
    BY <1>2, SessionStepIInv, SessionKeepsEnrol
  <1>3. CASE ReceiveConfig
    BY <1>3, ReceiveConfigIInv
  <1>4. CASE UNCHANGED vars
    <2>1. EnrolIInv'
      BY <1>4, SessionKeepsEnrol DEF vars
    <2> QED
      BY <1>4, <2>1 DEF vars, enrolVars, processVars, sessionVars, runVars, linkVars, SessionIInv,
                        BackoffPolicy, Doubled, running
  <1> QED
    BY <1>1, <1>2, <1>3, <1>4 DEF Next

\* Whatever step of an enrolment, a process or a session fails, the files, the
\* token, what is loaded and the timers stay in the relation of IInv
\* (identity.go:73, main.go:34, client.go:79).
THEOREM InvariantHolds == Spec => []IInv
  BY InitIInv, StepIInv, PTL DEF Spec

\* A session exists in a running process only, its connection no longer than
\* its read loop, and a delay is a duration however often it was doubled
\* (client.go:79-118, 139-219).
THEOREM TypeCorrect == Spec => []TypeOK
  <1>1. IInv => TypeOK
    BY DEF IInv, EnrolIInv, SessionIInv, TypeOK
  <1> QED
    BY <1>1, InvariantHolds, PTL

\* The identity on disk is never newer than key, certificate and CA, for any
\* number of enrolments cut off anywhere (Enroll, identity.go:149).
THEOREM IdentityLast == Spec => []IdentityIsOldest
  <1>1. IInv => IdentityIsOldest
    BY DEF IInv, EnrolIInv
  <1> QED
    BY <1>1, InvariantHolds, PTL

\* An operator's own token file is given up for a whole enrolment only
\* (identity.go:163); one in the installer's temporary directory is not kept.
THEOREM TokenLast == Spec => []TokenOutlivesEnrolment
  <1>1. IInv => TokenOutlivesEnrolment
    BY DEF IInv, EnrolIInv
  <1> QED
    BY <1>1, InvariantHolds, PTL

\* The core never serves the configuration of a node the loaded identity does
\* not name (restoreRuntime, main.go:122).
THEOREM OwnNodeServed == Spec => []ServesOwnNode
  <1>1. IInv => ServesOwnNode
    BY DEF IInv, EnrolIInv
  <1> QED
    BY <1>1, InvariantHolds, PTL

\* For every minimum and maximum that fit a duration the waits double up to
\* the maximum, and restart from the minimum after a session that worked
\* (reconnectSchedule, client.go:103).
THEOREM BackoffHolds == Spec => []BackoffPolicy
  <1>1. IInv => BackoffPolicy
    BY DEF IInv, SessionIInv
  <1> QED
    BY <1>1, InvariantHolds, PTL
=============================================================================
