----------------------------- MODULE Enrolment -----------------------------
(***************************************************************************)
(* Enrolment of a node: the installer with a token and its ways out, the   *)
(* enroll command it runs with the files it writes one after the other,    *)
(* and the start of the agent from whatever is on disk.                    *)
(*                                                                         *)
(* Key, certificate, CA and identity are abstracted to the attempt that    *)
(* produced them.  A token names the node the control plane made it for.   *)
(* An upgrade, which is the installer without a token, is left out.        *)
(***************************************************************************)
EXTENDS Naturals

CONSTANTS Token,        \* one-time tokens the operator has
          NoToken,      \* no token file, no node
          MaxAttempts,  \* bound on runs of the installer
          MaxFaults     \* bound on failed steps, crashes and lost connections

ASSUME EnrolmentAssumption == /\ NoToken \notin Token
                              /\ MaxAttempts \in Nat /\ MaxFaults \in Nat

VARIABLES
  files,      \* files[f]: the attempt that wrote f, 0 when there is none
  locked,     \* files that root has written and the agent's user cannot read
  tokenFile,  \* the token in EnrollmentTokenFile
  inTmp,      \* that file is in the installer's temporary directory
  node,       \* node[a]: the node the server enrolled in attempt a
  spent,      \* tokens the server has taken
  attempt,    \* the installer's current or last attempt
  install,    \* where the installer stands
  binary,     \* the agent's binary and service unit are installed
  hadBinary,  \* they were when the installer started
  database,   \* the node whose applied state is in agent.db
  backup,     \* the node of the agent.db the installer has moved away, if any
  wanted,     \* the service is started: its manager restarts the agent
  agent,      \* the agent process
  loaded,     \* attempts of the certificate and the identity it has loaded
  served,     \* the node whose configuration its core runs
  faults      \* faults so far, bounded by MaxFaults

tokenVars   == <<tokenFile, inTmp>>
hostVars    == <<attempt, install, binary, hadBinary, backup>>
serverVars  == <<node, spent>>
processVars == <<wanted, agent, loaded, served>>
enrolVars   == <<files, locked, tokenVars, database, hostVars, serverVars, processVars>>

File    == {"key", "cert", "ca", "identity"}
Private == {"key", "identity"}  \* mode 0600
Attempt == 1..MaxAttempts
Step    == {"idle", "stop", "request", "token", "chown", "service", "health", "rollback", "fallback"}
           \cup File
Nothing == [cert |-> 0, identity |-> 0]
running == agent = "up"

EnrolInit == /\ files = [f \in File |-> 0] /\ locked = {}
             /\ tokenFile = NoToken /\ inTmp = FALSE
             /\ node = [a \in Attempt |-> NoToken] /\ spent = {}
             /\ attempt = 0 /\ install = "idle"
             /\ binary = FALSE /\ hadBinary = FALSE
             /\ database = NoToken /\ backup = {}
             /\ wanted = FALSE /\ agent = "down" /\ loaded = Nothing /\ served = NoToken
             /\ faults = 0

Fault == faults < MaxFaults /\ faults' = faults + 1

ProcessGone == agent' = "down" /\ loaded' = Nothing /\ served' = NoToken

-----------------------------------------------------------------------------
(* The installer and the enroll command it runs.                           *)

\* The release is in place, its predecessor set aside.  The token is the
\* operator's file or, with --enroll-token, one in the temporary directory.
InstallStart(t, tmp) ==
  /\ install = "idle" /\ attempt < MaxAttempts
  /\ attempt' = attempt + 1 /\ install' = "stop"
  /\ tokenFile' = t /\ inTmp' = tmp
  /\ hadBinary' = binary /\ binary' = TRUE
  /\ UNCHANGED <<files, locked, database, backup, serverVars, processVars, faults>>

\* An enrolled agent is stopped and its state moved away.  Between two starts
\* its service may not count as active; then it is not stopped.
StopAgent ==
  /\ install = "stop"
  /\ \/ /\ files["identity"] = 0
        /\ install' = "request"
        /\ UNCHANGED <<backup, database, processVars, faults>>
     \/ /\ files["identity"] # 0
        /\ install' = "request"
        /\ backup' = {database} /\ database' = NoToken
        /\ \/ ProcessGone /\ wanted' = FALSE
           \/ agent = "down" /\ UNCHANGED processVars
        /\ UNCHANGED faults
     \/ /\ Fault /\ install' = "rollback"
        /\ UNCHANGED <<backup, database, processVars>>
  /\ UNCHANGED <<files, locked, tokenVars, attempt, binary, hadBinary, serverVars>>

\* Enroll generates a key and asks the server to sign it; the answer is
\* checked against that key (validateEnrollmentResult).  The server takes a
\* token once.
Enroll ==
  /\ install = "request"
  /\ tokenFile \notin spent \cup {NoToken}
  /\ spent' = spent \cup {tokenFile}
  /\ \/ /\ node' = [node EXCEPT ![attempt] = tokenFile]
        /\ install' = "key"
        /\ UNCHANGED faults
     \/ /\ Fault
        /\ install' = "rollback"
        /\ UNCHANGED node
  /\ UNCHANGED <<files, locked, tokenVars, database, attempt, binary, hadBinary, backup, processVars>>

\* Mutant: the token file is removed whatever the answer.
RefusalConsumesToken ==
  /\ install = "request" /\ tokenFile \in spent \cup {NoToken}
  /\ tokenFile' = NoToken /\ install' = "rollback"
  /\ UNCHANGED <<files, locked, inTmp, database, attempt, binary, hadBinary, backup, serverVars, processVars, faults>>
EnrollRefused ==
  /\ install = "request"
  /\ \/ tokenFile \in spent \cup {NoToken} /\ UNCHANGED faults
     \/ Fault
  /\ install' = "rollback"
  /\ UNCHANGED <<files, locked, tokenVars, database, attempt, binary, hadBinary, backup, serverVars, processVars>>

\* Mutant: the identity is written before what it belongs to.
IdentityFirst == [key |-> "identity", identity |-> "cert", cert |-> "ca", ca |-> "token"]
WriteOrder == [key |-> "cert", cert |-> "ca", ca |-> "identity", identity |-> "token"]

\* atomicWrite: the file is replaced whole or not at all, by a file of root's.
WriteFile ==
  /\ install \in File
  /\ \/ /\ files' = [files EXCEPT ![install] = attempt]
        /\ locked' = locked \cup ({install} \cap Private)
        /\ install' = WriteOrder[install]
        /\ UNCHANGED faults
     \/ /\ Fault
        /\ install' = "rollback"
        /\ UNCHANGED <<files, locked>>
  /\ UNCHANGED <<tokenVars, database, attempt, binary, hadBinary, backup, serverVars, processVars>>

RemoveToken ==
  /\ install = "token"
  /\ \/ tokenFile' = NoToken /\ install' = "chown" /\ UNCHANGED faults
     \/ Fault /\ install' = "rollback" /\ UNCHANGED tokenFile
  /\ UNCHANGED <<files, locked, inTmp, database, attempt, binary, hadBinary, backup, serverVars, processVars>>

Chown ==
  /\ install = "chown"
  /\ locked' = {} /\ install' = "service"
  /\ UNCHANGED <<files, tokenVars, database, attempt, binary, hadBinary, backup, serverVars, processVars, faults>>

\* service_enable and service_restart.
RestartAgent ==
  /\ install = "service"
  /\ \/ ProcessGone /\ wanted' = TRUE /\ install' = "health" /\ UNCHANGED faults
     \/ Fault /\ install' = "fallback" /\ UNCHANGED processVars
  /\ UNCHANGED <<files, locked, tokenVars, database, attempt, binary, hadBinary, backup, serverVars>>

\* The trap: the temporary directory goes, with the token and the database in it.
Trap == /\ backup' = {}
        /\ tokenFile' = IF inTmp THEN NoToken ELSE tokenFile
        /\ UNCHANGED <<files, locked, inTmp, attempt, serverVars>>

InstallExits == install' = "idle" /\ hadBinary' = FALSE /\ Trap

HealthCheck ==
  /\ install = "health"
  /\ \/ InstallExits /\ UNCHANGED faults
     \/ /\ Fault /\ install' = "fallback"
        /\ UNCHANGED <<files, locked, tokenVars, attempt, hadBinary, backup, serverVars>>
  /\ UNCHANGED <<database, binary, processVars>>

\* rollback_install: a first installation is removed and nothing is started.
\* After a finished enrolment ("fallback") the state is not put back.
Rollback ==
  /\ install \in {"rollback", "fallback"}
  /\ binary' = hadBinary
  /\ database' \in IF install = "rollback" /\ backup # {} THEN backup ELSE {database}
  /\ \/ /\ hadBinary /\ files["identity"] # 0
        /\ ProcessGone /\ wanted' = TRUE
        /\ UNCHANGED faults
     \/ /\ ~hadBinary \/ files["identity"] = 0
        /\ UNCHANGED <<processVars, faults>>
     \/ Fault /\ UNCHANGED processVars
  /\ InstallExits

\* It is killed, or a command whose failure is not caught ends it (set -e).  Of
\* a directory that a kill leaves behind nothing is used again.
InstallDies ==
  /\ install # "idle" /\ Fault
  /\ InstallExits
  /\ UNCHANGED <<database, binary, processVars>>

\* INT and TERM run the trap as well, and the script goes on after it.
Interrupted ==
  /\ install # "idle" /\ Fault
  /\ Trap
  /\ UNCHANGED <<install, hadBinary, database, binary, processVars>>

-----------------------------------------------------------------------------
(* The agent process.                                                      *)

\* Load reads the identity first.  A start that fails is tried again by the
\* service manager (Restart=always), as long as nobody has stopped the service.
ServiceStart ==
  /\ wanted /\ binary /\ agent = "down"
  /\ files["identity"] # 0 /\ "identity" \notin locked
  /\ agent' = "loading"
  /\ loaded' = [Nothing EXCEPT !.identity = files["identity"]]
  /\ UNCHANGED <<files, locked, tokenVars, database, hostVars, serverVars, wanted, served, faults>>

\* Mutant: the stored configuration is not compared with the identity.
RestoreAnything(n) == database
\* restoreRuntime: state of another node is not served; the applied versions
\* are reset instead.
RestoreRuntime(n) == IF database = n THEN database ELSE NoToken

\* LoadX509KeyPair, which wants a key that fits the certificate, and restore.
LoadPair ==
  /\ agent = "loading"
  /\ \/ /\ files["key"] = files["cert"] /\ "key" \notin locked
        /\ agent' = "up"
        /\ loaded' = [loaded EXCEPT !.cert = files["cert"]]
        /\ LET n == node[loaded.identity]
           IN /\ served' = RestoreRuntime(n)
              /\ database' = IF database = n THEN database ELSE NoToken
     \/ /\ files["key"] # files["cert"] \/ "key" \in locked
        /\ ProcessGone
        /\ UNCHANGED database
  /\ UNCHANGED <<files, locked, tokenVars, hostVars, serverVars, wanted, faults>>

ProcessDies ==
  /\ agent # "down" /\ Fault
  /\ ProcessGone
  /\ UNCHANGED <<files, locked, tokenVars, database, hostVars, serverVars, wanted>>

InstallStep == \/ StopAgent \/ Enroll \/ EnrollRefused \/ WriteFile \/ RemoveToken
               \/ Chown \/ RestartAgent \/ HealthCheck \/ Rollback

EnrolStep == \/ \E t \in Token, tmp \in BOOLEAN : InstallStart(t, tmp)
             \/ InstallStep \/ InstallDies \/ Interrupted
             \/ ServiceStart \/ LoadPair \/ ProcessDies

-----------------------------------------------------------------------------
\* Every variable ranges over the values the program can give it.
EnrolTypeOK == /\ files \in [File -> 0..attempt] /\ locked \subseteq Private
               /\ tokenFile \in Token \cup {NoToken} /\ inTmp \in BOOLEAN
               /\ node \in [Attempt -> Token \cup {NoToken}]
               /\ spent \subseteq Token
               /\ attempt \in 0..MaxAttempts /\ install \in Step
               /\ binary \in BOOLEAN /\ hadBinary \in BOOLEAN
               /\ {database, served} \cup backup \subseteq Token \cup {NoToken}
               /\ wanted \in BOOLEAN /\ agent \in {"down", "loading", "up"}
               /\ loaded \in [cert : 0..attempt, identity : 0..attempt]
               /\ faults \in 0..MaxFaults

\* The identity on disk is never newer than the key, the certificate and the
\* CA beside it, whichever write of whichever attempt failed or was cut off
\* (Enroll, identity.go:149), and neither is the one an agent has loaded while
\* an installer wrote beside it (Load, identity.go:169).
IdentityIsOldest ==
  /\ files["identity"] # 0 => \A f \in File : files[f] >= files["identity"]
  /\ running => loaded.cert >= loaded.identity

\* The enroll command succeeds with the whole enrolment on disk, and an
\* operator's own token file is gone only after such a success: refused,
\* cut-off and half-written enrolments leave it (identity.go:163).  A token
\* given as --enroll-token is lost with the temporary directory however the
\* installer ends (install.sh:108, 355).
TokenOutlivesEnrolment ==
  (\/ install \in {"chown", "service", "health", "fallback"}
   \/ install = "idle" /\ attempt > 0 /\ ~inTmp /\ tokenFile = NoToken)
     => \A f \in File : files[f] = attempt

\* The core serves the configuration of the node the loaded identity names,
\* although the database beside it may be another node's: an agent between two
\* starts is not stopped (install.sh:364), and fills the new database with the
\* configuration of its old node (restoreRuntime, main.go:122).
ServesOwnNode == served # NoToken => running /\ served = node[loaded.identity]

\* What a cut-off enrolment leaves so that no start succeeds, or succeeds with
\* an identity and a certificate of different enrolments.
Torn == (\E f, g \in File : files[f] # files[g]) \/ locked # {}
=============================================================================
