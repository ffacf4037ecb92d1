---------------------------- MODULE Maintenance ----------------------------
(***************************************************************************)
(* Signed maintenance: the unprivileged agent queues update and uninstall  *)
(* commands as files, the root manager executes them, and the agent sends  *)
(* the result file back to the control server.                             *)
(*                                                                         *)
(* Two processes and the file system: each action is one file operation,   *)
(* or one step of a handler that no other process can tell from its        *)
(* neighbours.  Release versions are numbers, 0 is "no such file" or "not  *)
(* running".  Signatures are verified; what matters of the validity window *)
(* is that a command expires (five minutes) before its marker is cleaned   *)
(* up (seven days).  The age of the ready file is not modelled: the agent  *)
(* may refuse a command whenever it comes.                                 *)
(***************************************************************************)
EXTENDS Naturals

CONSTANTS Command,        \* [id, action, target], action "update" or "uninstall"
          RenameMayFail,  \* may the renames of a rollback fail
          MaxFaults       \* bound on crashes and failed operations

ASSUME MaintenanceAssumption ==
  /\ \A c \in Command : c.action \in {"update", "uninstall"} /\ c.target \in Nat
  /\ \A c, d \in Command : c.id = d.id => c = d
  /\ RenameMayFail \in BOOLEAN
  /\ MaxFaults \in Nat

VARIABLES
  requests,   \* files of the request directory
  markers,    \* files of the processed directory
  markerDir,  \* does that directory exist
  expired,    \* commands past their validity window
  result,     \* the result file, or NoResult
  current,    \* version of bin/iepl-agent
  previous,   \* version of bin/iepl-agent.previous
  units,      \* are the service units installed
  agent,      \* version of the running agent
  apc, held,  \* where runMaintenance's takeResult stands, the result it read
  mpc,        \* where the manager stands
  cmd,        \* the command it executes
  mver,       \* m.version
  outcome,    \* status of the command's result
  written,    \* history: results written
  faults

queueVars   == <<requests, markers, markerDir, expired>>
binVars     == <<current, previous, units>>
agentVars   == <<agent, apc, held>>
managerVars == <<mpc, cmd, mver, outcome>>
vars == <<requests, markers, markerDir, expired, result, current, previous, units, agent, apc, held,
          mpc, cmd, mver, outcome, written, faults>>

NoResult  == [status |-> "none"]
NoCommand == [action |-> "none"]

\* A node installed with release 1.
Init == /\ requests = {} /\ markers = {} /\ markerDir = TRUE /\ expired = {}
        /\ result = NoResult
        /\ current = 1 /\ previous = 0 /\ units = TRUE
        /\ agent = 1 /\ apc = "idle" /\ held = NoResult
        /\ mpc = "idle" /\ cmd = NoCommand /\ mver = 1 /\ outcome = "failed"
        /\ written = {} /\ faults = 0

Fault == faults < MaxFaults /\ faults' = faults + 1

-----------------------------------------------------------------------------
(* The agent.                                                              *)

\* HandleCommand: a command that verifies is renamed into the request
\* directory, whether or not it was processed before.
HandleCommand(c) ==
  /\ agent # 0
  /\ c \notin expired
  /\ requests' = requests \cup {c}
  /\ UNCHANGED <<markers, markerDir, expired, result, binVars, agentVars, managerVars, written, faults>>

AgentRun(v) == agent' = v /\ apc' = "idle" /\ held' = NoResult

\* takeResult: CompletedResult reads the file ...
ReadResult == /\ agent # 0 /\ apc = "idle"
              /\ result # NoResult
              /\ held' = result /\ apc' = "read"
              /\ UNCHANGED <<queueVars, result, binVars, agent, managerVars, written, faults>>

\* ... its content is sent ...
SendResult == /\ apc = "read"
              /\ apc' = "sent"
              /\ UNCHANGED <<queueVars, result, binVars, agent, held, managerVars, written, faults>>

SendFails == /\ Fault
             /\ apc = "read"
             /\ AgentRun(agent)
             /\ UNCHANGED <<queueVars, result, binVars, managerVars, written>>

\* ... ClearCompletedResult reads the file again and compares the command ...
CompareResult ==
  /\ apc = "sent"
  /\ \/ /\ result # NoResult /\ result.cmd = held.cmd
        /\ apc' = "matched" /\ UNCHANGED <<agent, held>>
     \/ /\ result = NoResult \/ result.cmd # held.cmd
        /\ AgentRun(agent)
  /\ UNCHANGED <<queueVars, result, binVars, managerVars, written, faults>>

\* ... and removes what is there by then.
RemoveResult == /\ apc = "matched"
                /\ result' = NoResult /\ AgentRun(agent)
                /\ UNCHANGED <<queueVars, binVars, managerVars, written, faults>>

\* The service stops: systemd removes its runtime directory, which holds the
\* request directory; OpenRC leaves it alone.
AgentStop == AgentRun(0) /\ requests' \in {requests, {}}

AgentCrash == /\ Fault
              /\ agent # 0
              /\ AgentStop
              /\ UNCHANGED <<markers, markerDir, expired, result, binVars, managerVars, written>>

\* The service manager starts the installed binary.
AgentStarts == /\ agent = 0 /\ units /\ current # 0
               /\ AgentRun(current)
               /\ UNCHANGED <<queueVars, result, binVars, managerVars, written, faults>>

Expire(c) == /\ c \notin expired
             /\ expired' = expired \cup {c}
             /\ UNCHANGED <<requests, markers, markerDir, result, binVars, agentVars, managerVars,
                            written, faults>>

-----------------------------------------------------------------------------
(* The manager: processRequest.                                            *)

Goto(p) == mpc' = p /\ UNCHANGED <<cmd, mver, outcome>>
Rest(p, version) == mpc' = p /\ cmd' = NoCommand /\ mver' = version /\ outcome' = "failed"
Ends(p, status) == mpc' = p /\ outcome' = status /\ UNCHANGED <<cmd, mver>>

NeverProcessed(c) == FALSE
Processed(c) == c \in markers

\* An expired command, or one with a marker, is only removed.
RejectRequest(c) ==
  /\ mpc = "idle" /\ c \in requests
  /\ c \in expired \/ Processed(c)
  /\ mpc' = "remove" /\ cmd' = c
  /\ UNCHANGED <<queueVars, result, binVars, agentVars, mver, outcome, written, faults>>

BeginUpdate(c) ==
  /\ mpc = "idle" /\ c \in requests
  /\ c \notin expired /\ ~Processed(c)
  /\ c.action = "update"
  /\ mpc' = "install" /\ cmd' = c
  /\ UNCHANGED <<queueVars, result, binVars, agentVars, mver, outcome, written, faults>>

\* Uninstalling marks the command before anything else.
BeginUninstall(c) ==
  /\ mpc = "idle" /\ c \in requests
  /\ c \notin expired /\ ~Processed(c)
  /\ c.action = "uninstall"
  /\ markerDir
  /\ markers' = markers \cup {c}
  /\ mpc' = "uninstall" /\ cmd' = c
  /\ UNCHANGED <<requests, markerDir, expired, result, binVars, agentVars, mver, outcome, written, faults>>

\* The marker cannot be written; WriteFile may fail after it created it.
UninstallNotMarked(c) ==
  /\ mpc = "idle" /\ c \in requests
  /\ c \notin expired /\ ~Processed(c)
  /\ c.action = "uninstall"
  /\ markerDir => faults < MaxFaults
  /\ faults' = IF markerDir THEN faults + 1 ELSE faults
  /\ \/ UNCHANGED markers
     \/ markerDir /\ markers' = markers \cup {c}
  /\ mpc' = "remove" /\ cmd' = c
  /\ UNCHANGED <<requests, markerDir, expired, result, binVars, agentVars, mver, outcome, written>>

KeepRequest == requests
RequestsLeft == requests \ {cmd}

\* The request file goes when processRequest has returned.
RemoveRequest == /\ mpc = "remove"
                 /\ requests' = RequestsLeft
                 /\ Rest("idle", mver)
                 /\ UNCHANGED <<markers, markerDir, expired, result, binVars, agentVars, written, faults>>

\* cleanupProcessed
CleanupProcessed(c) == /\ mpc = "idle"
                       /\ c \in markers /\ c \in expired
                       /\ markers' = markers \ {c}
                       /\ UNCHANGED <<requests, markerDir, expired, result, binVars, agentVars, managerVars,
                                      written, faults>>

-----------------------------------------------------------------------------
(* installRelease.                                                         *)

AnyVersion == TRUE
Newer == cmd.target > mver

NotNewer == /\ mpc = "install"
            /\ ~Newer
            /\ Ends("mark", "failed")
            /\ UNCHANGED <<queueVars, result, binVars, agentVars, written, faults>>

\* The clock, a download, the checksum or the version check fails.
DownloadFails == /\ Fault
                 /\ mpc = "install"
                 /\ Newer
                 /\ Ends("mark", "failed")
                 /\ UNCHANGED <<queueVars, result, binVars, agentVars, written>>

\* The verified binary is there; the backup of an earlier update is deleted.
RemovePrevious == /\ mpc = "install"
                  /\ Newer
                  /\ previous' = 0
                  /\ Goto("save")
                  /\ UNCHANGED <<queueVars, result, current, units, agentVars, written, faults>>

NoBackup == 0
Backup == current

\* Rename(current, previous)
SaveCurrent == /\ mpc = "save"
               /\ current # 0
               /\ previous' = Backup /\ current' = 0
               /\ Goto("swap")
               /\ UNCHANGED <<queueVars, result, units, agentVars, written, faults>>

SaveFails == /\ mpc = "save"
             /\ \/ current = 0 /\ UNCHANGED faults
                \/ Fault
             /\ Ends("mark", "failed")
             /\ UNCHANGED <<queueVars, result, binVars, agentVars, written>>

\* Rename(temporary, current)
SwapIn == /\ mpc = "swap"
          /\ current' = cmd.target
          /\ Goto("restart")
          /\ UNCHANGED <<queueVars, result, previous, units, agentVars, written, faults>>

SwapInFails == /\ Fault
               /\ mpc = "swap"
               /\ Goto("undo")
               /\ UNCHANGED <<queueVars, result, binVars, agentVars, written>>

\* Rename(previous, current) after a failed rename; its error is ignored.
UndoSave == /\ mpc = "undo"
            /\ \/ current' = previous /\ previous' = 0 /\ UNCHANGED faults
               \/ RenameMayFail /\ Fault /\ UNCHANGED <<current, previous>>
            /\ Ends("mark", "failed")
            /\ UNCHANGED <<queueVars, result, units, agentVars, written>>

\* restartAgentService stops the agent and starts the installed binary.
Restarted(v) == AgentRun(v) /\ requests' \in {requests, {}}

RestartAgent == /\ mpc = "restart"
                /\ units
                /\ Restarted(current)
                /\ Goto("health")
                /\ UNCHANGED <<markers, markerDir, expired, result, binVars, written, faults>>

\* The restart fails: there is no unit any more, or the service stays down.
RestartFails == /\ mpc = "restart"
                /\ \/ ~units /\ UNCHANGED <<requests, agentVars, faults>>
                   \/ Fault /\ AgentStop
                /\ Goto("rollback")
                /\ UNCHANGED <<markers, markerDir, expired, result, binVars, written>>

\* The agent does not become healthy in time.
Unhealthy == /\ Fault
             /\ mpc = "health"
             /\ Goto("rollback")
             /\ UNCHANGED <<queueVars, result, binVars, agentVars, written>>

Healthy == /\ mpc = "health"
           /\ agent = cmd.target
           /\ Ends("mark", "succeeded")
           /\ UNCHANGED <<queueVars, result, binVars, agentVars, written, faults>>

\* Remove(current) ...
RemoveCurrent == /\ mpc = "rollback"
                 /\ current' = 0
                 /\ Goto("restore")
                 /\ UNCHANGED <<queueVars, result, previous, units, agentVars, written, faults>>

\* ... Rename(previous, current) and a restart; their errors are ignored.
RestorePrevious ==
  /\ mpc = "restore"
  /\ \/ current' = previous /\ previous' = 0 /\ UNCHANGED faults
     \/ RenameMayFail /\ Fault /\ UNCHANGED <<current, previous>>
  /\ \/ units /\ Restarted(current')
     \/ ~units /\ UNCHANGED <<requests, agentVars>>
  /\ Ends("mark", "failed")
  /\ UNCHANGED <<markers, markerDir, expired, result, units, written>>

-----------------------------------------------------------------------------
(* The rest of an update: marker, result, re-execution.                    *)

NoMarker == markers
Marked == markers \cup {cmd}

MarkProcessed == /\ mpc = "mark"
                 /\ markerDir
                 /\ markers' = Marked
                 /\ Goto("write")
                 /\ UNCHANGED <<requests, markerDir, expired, result, binVars, agentVars, written, faults>>

\* The marker or the result cannot be written: no result, and m.version stays.
\* WriteFile may fail after it created the marker.
RecordFails == /\ \/ mpc \in {"mark", "write"} /\ Fault
                  \/ mpc = "mark" /\ ~markerDir /\ UNCHANGED faults
               /\ \/ UNCHANGED markers
                  \/ mpc = "mark" /\ markerDir /\ markers' = Marked
               /\ Goto("remove")
               /\ UNCHANGED <<requests, markerDir, expired, result, binVars, agentVars, written>>

Result(status, version) == [cmd |-> cmd, status |-> status, version |-> version]

Write(r) == result' = r /\ written' = written \cup {r}

WriteResult ==
  /\ mpc = "write"
  /\ \/ /\ outcome = "succeeded"
        /\ Write(Result("succeeded", cmd.target))
        /\ mver' = cmd.target /\ mpc' = "reexec"
     \/ /\ outcome = "failed"
        /\ Write(Result("failed", mver))
        /\ mpc' = "remove" /\ UNCHANGED mver
  /\ UNCHANGED <<queueVars, binVars, agentVars, cmd, outcome, faults>>

\* replaceProcess: the new manager finds the request file and its marker.
Reexec == /\ mpc = "reexec"
          /\ current # 0
          /\ markerDir' = TRUE
          /\ Rest("idle", current)
          /\ UNCHANGED <<requests, markers, expired, result, binVars, agentVars, written, faults>>

ReexecFails == /\ Fault
               /\ mpc = "reexec"
               /\ Goto("remove")
               /\ UNCHANGED <<queueVars, result, binVars, agentVars, written>>

-----------------------------------------------------------------------------
(* uninstall.                                                              *)

StopServices == /\ mpc = "uninstall"
                /\ AgentStop
                /\ units' = FALSE
                /\ Goto("wipe")
                /\ UNCHANGED <<markers, markerDir, expired, result, current, previous, written, faults>>

\* Stopping the agent reports an error, whether or not it stopped; by then the
\* units are removed.
StopFails == /\ Fault
             /\ mpc = "uninstall"
             /\ units' = FALSE
             /\ \/ AgentStop
                \/ UNCHANGED <<requests, agentVars>>
             /\ Write(Result("failed", mver))
             /\ Goto("remove")
             /\ UNCHANGED <<markers, markerDir, expired, current, previous>>

\* Every directory is removed and the manager returns.
Wipe == /\ mpc = "wipe"
        /\ requests' = {} /\ markers' = {} /\ result' = NoResult
        /\ current' = 0 /\ previous' = 0
        /\ markerDir' = FALSE
        /\ Rest("gone", 0)
        /\ UNCHANGED <<expired, units, agentVars, written, faults>>

\* A directory cannot be removed: the earlier ones are gone (the processed
\* directory, the request directory, the binaries, in this order).
WipeFails == /\ Fault
             /\ mpc = "wipe"
             /\ \/ UNCHANGED <<markers, markerDir, requests, current, previous>>
                \/ /\ markers' = {} /\ markerDir' = FALSE
                   /\ \/ UNCHANGED <<requests, current, previous>>
                      \/ requests' = {} /\ current' \in {current, 0} /\ previous' \in {previous, 0}
             /\ Write(Result("failed", mver))
             /\ Goto("remove")
             /\ UNCHANGED <<expired, units, agentVars>>

\* The manager dies; the service manager starts the installed binary, which
\* creates the processed directory.
ManagerCrash == /\ Fault
                /\ mpc \notin {"down", "gone"}
                /\ Rest("down", 0)
                /\ UNCHANGED <<queueVars, result, binVars, agentVars, written>>

ManagerStarts == /\ mpc = "down"
                 /\ units /\ current # 0
                 /\ markerDir' = TRUE
                 /\ Rest("idle", current)
                 /\ UNCHANGED <<requests, markers, expired, result, binVars, agentVars, written, faults>>

-----------------------------------------------------------------------------
AgentStep == ReadResult \/ SendResult \/ CompareResult \/ RemoveResult \/ AgentStarts

Begin(c) == RejectRequest(c) \/ BeginUpdate(c) \/ BeginUninstall(c) \/ UninstallNotMarked(c)

ManagerStep == \/ RemoveRequest \/ NotNewer \/ RemovePrevious \/ SaveCurrent \/ SaveFails
               \/ SwapIn \/ UndoSave \/ RestartAgent \/ RestartFails \/ Healthy
               \/ RemoveCurrent \/ RestorePrevious \/ MarkProcessed \/ RecordFails \/ WriteResult \/ Reexec
               \/ StopServices \/ Wipe \/ ManagerStarts

Failure == \/ SendFails \/ AgentCrash \/ DownloadFails \/ SwapInFails \/ Unhealthy
           \/ ReexecFails \/ StopFails \/ WipeFails \/ ManagerCrash

Next == \/ AgentStep \/ ManagerStep \/ Failure
        \/ \E c \in Command : HandleCommand(c) \/ Expire(c) \/ Begin(c) \/ CleanupProcessed(c)

Spec == Init /\ [][Next]_vars

\* Both processes run and are restarted; processRequests goes through every
\* entry of the directory before it reads it again.
Fairness == /\ WF_vars(AgentStep) /\ WF_vars(ManagerStep)
            /\ \A c \in Command : SF_vars(Begin(c))

FairSpec == Spec /\ Fairness

-----------------------------------------------------------------------------
Steps == {"idle", "remove", "install", "save", "swap", "undo", "restart", "health",
          "rollback", "restore", "mark", "write", "reexec", "uninstall", "wipe",
          "down", "gone"}
Versions == {c.target : c \in Command} \cup {0, 1}
Results  == [cmd : Command, status : {"succeeded", "failed"}, version : Versions]

\* Every variable ranges over the values the two processes can give it, and
\* the manager has a command to execute, and a backup while the installed
\* binary is being replaced (manager.go:150-321, client.go:324-385).
TypeOK == /\ requests \subseteq Command /\ markers \subseteq Command /\ markerDir \in BOOLEAN
          /\ expired \subseteq Command
          /\ result \in Results \cup {NoResult}
          /\ current \in Versions /\ previous \in Versions /\ units \in BOOLEAN
          /\ agent \in Versions
          /\ apc \in {"idle", "read", "sent", "matched"}
          /\ held \in Results \cup {NoResult}
          /\ mpc \in Steps /\ cmd \in Command \cup {NoCommand} /\ mver \in Versions
          /\ outcome \in {"succeeded", "failed"}
          /\ mpc \notin {"idle", "down", "gone"} => cmd \in Command
          /\ mpc \in {"swap", "undo", "restart", "health", "rollback", "restore"} => previous # 0
          /\ written \subseteq Results
          /\ faults \in 0..MaxFaults

\* A command has at most one result, however often it is delivered, and
\* whenever the manager dies or re-executes itself (markProcessed before
\* writeResult, manager.go:219-224).
OneVerdict == \A r, s \in written : r.cmd = s.cmd => r = s

Installed == IF current # 0 THEN current ELSE previous

\* An update reported as succeeded is not undone by later updates, rollbacks
\* or crashes: the binary, or the backup it is restored from, is at least that
\* release (versionNewer and the rollback of installRelease, manager.go:242).
SucceededNotLost ==
  \A r \in written : r.status = "succeeded" /\ units => Installed >= r.version

\* Whenever the two processes stop, one of the two binaries is there to start
\* or to restore (manager.go:298-320).
OneBinaryLeft == units => Installed # 0

\* A queued command is taken off the queue, unless no manager can run any
\* more (processRequests, manager.go:122).
RequestsDrain ==
  \A c \in Command : c \in requests ~> (c \notin requests \/ ~units \/ current = 0)

\* controller.go:149 refuses to remove a result that "changed before
\* acknowledgement": what is removed is the result that was sent.
RemovedResultWasSent ==
  [][result # NoResult /\ result' = NoResult /\ units => result = held]_vars
=============================================================================
