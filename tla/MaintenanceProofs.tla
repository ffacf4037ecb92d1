------------------------- MODULE MaintenanceProofs -------------------------
(***************************************************************************)
(* Proofs about Maintenance for every set of commands and every number of  *)
(* faults: a command has one verdict, and, as long as the renames of a     *)
(* rollback do not fail, an update that was reported is never lost and a   *)
(* binary is left.                                                         *)
(***************************************************************************)
EXTENDS Maintenance, TLAPS

\* The manager executes cmd and has not written its result.
Executing == {"install", "save", "swap", "undo", "restart", "health", "rollback", "restore",
              "mark", "write", "uninstall", "wipe"}

\* Why a command is executed to a result once only: a result is written for a
\* command whose marker is there, a marker goes when the command has expired,
\* and a processed directory that an uninstallation removed comes back with
\* service units only, which that uninstallation had removed before.
VerdictInv ==
  /\ ~markerDir \/ mpc = "wipe" => ~units
  /\ mpc \in {"write", "reexec", "uninstall", "wipe"} => markerDir
  /\ mpc \in {"write", "uninstall", "wipe"} => cmd \in markers \cup expired
  /\ markerDir => /\ \A r \in written : r.cmd \in markers \cup expired
                  /\ mpc \in Executing => \A r \in written : r.cmd # cmd
  /\ OneVerdict

\* Release v is no older than any update reported as succeeded.
AtLeast(v) == \A r \in written : r.status = "succeeded" => v >= r.version

Replacing == {"swap", "undo", "restart", "health", "rollback", "restore"}

\* Why no reported update is lost: both m.version and the installed binary,
\* or the backup while that is being replaced, are at least as new, and only a
\* release newer than m.version is swapped in.
BinaryInv ==
  units =>
    /\ mpc # "gone"
    /\ current = 0 => mpc \in {"swap", "undo", "restore", "down"} /\ previous # 0
    /\ current # 0 => AtLeast(current)
    /\ current = 0 \/ mpc \in Replacing => AtLeast(previous)
    /\ mpc # "down" => AtLeast(mver)
    /\ mpc \in Replacing \cup {"save"} => mver < cmd.target
    /\ mpc \in {"restart", "health", "rollback"} => current = cmd.target
    /\ mpc \in {"mark", "write"} /\ outcome = "succeeded"
         => mver < cmd.target /\ current = cmd.target

\* The inductive invariant.
IInv == TypeOK /\ VerdictInv /\ (RenameMayFail \/ BinaryInv)

-----------------------------------------------------------------------------
(* Types.                                                                  *)

\* Releases are numbers.
LEMMA VersionsAreNat == Versions \subseteq Nat
  BY MaintenanceAssumption DEF Versions

\* What writeResult writes.
LEMMA ResultType ==
  ASSUME cmd \in Command, NEW st \in {"succeeded", "failed"}, NEW v \in Versions
  PROVE  Result(st, v) \in Results
  BY DEF Result, Results

\* Every step keeps types.
LEMMA TypeStep == TypeOK /\ [Next]_vars => TypeOK'
  <1> SUFFICES ASSUME TypeOK, [Next]_vars PROVE TypeOK'
    OBVIOUS
  <1> USE MaintenanceAssumption
  <1> USE DEF TypeOK, queueVars, binVars, agentVars, managerVars, Steps, Goto, Ends, Rest,
              AgentRun, AgentStop, Restarted
  <1>0. /\ Fault => faults' \in 0..MaxFaults
        /\ 0 \in Versions
        /\ cmd \in Command => cmd.target \in Versions
    BY DEF Fault, Versions
  <1>1. CASE AgentStep
    BY <1>0, <1>1 DEF AgentStep, ReadResult, SendResult, CompareResult, RemoveResult, AgentStarts
  <1>2. CASE SendFails \/ AgentCrash
    BY <1>0, <1>2 DEF SendFails, AgentCrash
  <1>3. ASSUME NEW c \in Command, HandleCommand(c) \/ Expire(c) \/ CleanupProcessed(c) PROVE TypeOK'
    BY <1>3 DEF HandleCommand, Expire, CleanupProcessed
  <1>4. ASSUME NEW c \in Command, Begin(c) PROVE TypeOK'
    <2>1. faults' \in 0..MaxFaults
      BY <1>4 DEF Begin, RejectRequest, BeginUpdate, BeginUninstall, UninstallNotMarked
    <2> QED
      BY <1>4, <2>1 DEF Begin, RejectRequest, BeginUpdate, BeginUninstall, UninstallNotMarked
  <1>5. CASE RemoveRequest \/ NotNewer \/ RemovePrevious
    BY <1>0, <1>5 DEF RemoveRequest, RequestsLeft, NotNewer, RemovePrevious
  <1>6. CASE SaveCurrent \/ SwapIn \/ UndoSave \/ SaveFails
    BY <1>0, <1>6 DEF SaveCurrent, Backup, SwapIn, UndoSave, SaveFails
  <1>7. CASE DownloadFails \/ SwapInFails \/ Unhealthy \/ ReexecFails \/ ManagerCrash
    BY <1>0, <1>7 DEF DownloadFails, SwapInFails, Unhealthy, ReexecFails, ManagerCrash
  <1>8. CASE RestartAgent \/ RestartFails \/ Healthy
    BY <1>0, <1>8 DEF RestartAgent, RestartFails, Healthy
  <1>9. CASE RemoveCurrent \/ RestorePrevious
    BY <1>0, <1>9 DEF RemoveCurrent, RestorePrevious
  <1>10. CASE MarkProcessed \/ RecordFails
    BY <1>0, <1>10 DEF MarkProcessed, RecordFails, Marked
  <1>11. CASE WriteResult
    <2>1. Result("succeeded", cmd.target) \in Results /\ Result("failed", mver) \in Results
      BY <1>0, <1>11, ResultType DEF WriteResult
    <2> QED
      BY <1>0, <1>11, <2>1 DEF WriteResult, Write
  <1>12. CASE Reexec \/ ManagerStarts \/ StopServices \/ Wipe
    BY <1>0, <1>12 DEF Reexec, ManagerStarts, StopServices, Wipe
  <1>13. CASE StopFails \/ WipeFails
    <2>1. Result("failed", mver) \in Results
      BY <1>13, ResultType DEF StopFails, WipeFails
    <2>2. CASE StopFails
      BY <1>0, <2>1, <2>2 DEF StopFails, Write
    <2>3. CASE WipeFails
      BY <1>0, <2>1, <2>3 DEF WipeFails, Write
    <2> QED
      BY <1>13, <2>2, <2>3
  <1>14. CASE UNCHANGED vars
    BY <1>14 DEF vars
  <1> QED
    BY <1>1, <1>2, <1>3, <1>4, <1>5, <1>6, <1>7, <1>8, <1>9, <1>10, <1>11, <1>12, <1>13, <1>14
    DEF Next, ManagerStep, Failure

-----------------------------------------------------------------------------
(* One verdict.                                                            *)

\* A step that neither begins a command nor records anything of it.
Quiet == /\ UNCHANGED <<markers, markerDir, expired, units, written>>
         /\ \/ UNCHANGED <<mpc, cmd>>
            \/ /\ mpc' \notin {"write", "reexec", "uninstall", "wipe"}
               /\ mpc' \in Executing => mpc \in Executing /\ cmd' = cmd

\* These steps write no result and remove no marker.
LEMMA QuietSteps ==
  ASSUME \/ AgentStep \/ SendFails \/ AgentCrash \/ UNCHANGED vars
         \/ \E c \in Command : HandleCommand(c) \/ RejectRequest(c)
         \/ RemoveRequest \/ NotNewer \/ DownloadFails \/ RemovePrevious \/ SaveCurrent \/ SaveFails
         \/ SwapIn \/ SwapInFails \/ UndoSave \/ RestartAgent \/ RestartFails \/ Unhealthy \/ Healthy
         \/ RemoveCurrent \/ RestorePrevious \/ ReexecFails \/ ManagerCrash
  PROVE  Quiet
  <1> USE DEF Quiet, queueVars, binVars, managerVars, Executing
  <1>1. CASE AgentStep \/ SendFails \/ AgentCrash \/ UNCHANGED vars
    BY <1>1 DEF AgentStep, SendFails, AgentCrash, ReadResult, SendResult, CompareResult,
                RemoveResult, AgentStarts, vars
  <1>2. ASSUME NEW c \in Command, HandleCommand(c) \/ RejectRequest(c) PROVE Quiet
    BY <1>2 DEF HandleCommand, RejectRequest
  <1>3. CASE RemoveRequest \/ NotNewer \/ DownloadFails \/ RemovePrevious \/ SaveCurrent \/ SaveFails
    BY <1>3 DEF RemoveRequest, NotNewer, DownloadFails, RemovePrevious, SaveCurrent, SaveFails,
                Goto, Ends, Rest
  <1>4. CASE SwapIn \/ SwapInFails \/ UndoSave \/ RestartAgent \/ RestartFails \/ Unhealthy \/ Healthy
    BY <1>4 DEF SwapIn, SwapInFails, UndoSave, RestartAgent, RestartFails, Unhealthy, Healthy,
                Goto, Ends
  <1>5. CASE RemoveCurrent \/ RestorePrevious \/ ReexecFails \/ ManagerCrash
    BY <1>5 DEF RemoveCurrent, RestorePrevious, ReexecFails, ManagerCrash, Goto, Ends, Rest
  <1> QED
    BY <1>1, <1>2, <1>3, <1>4, <1>5

\* Every step keeps results under markers that outlive their command.
LEMMA VerdictStep == TypeOK /\ VerdictInv /\ [Next]_vars => VerdictInv'
  <1> SUFFICES ASSUME TypeOK, VerdictInv, [Next]_vars PROVE VerdictInv'
    OBVIOUS
  <1>1. CASE Quiet
    BY <1>1 DEF Quiet, VerdictInv, OneVerdict, Executing
  <1> USE DEF queueVars, binVars, managerVars, Goto, Rest, Executing
  <1>2. ASSUME NEW c \in Command, Expire(c) \/ CleanupProcessed(c) PROVE VerdictInv'
    BY <1>2 DEF Expire, CleanupProcessed, VerdictInv, OneVerdict
  <1>3. ASSUME NEW c \in Command, BeginUpdate(c) PROVE VerdictInv'
    BY <1>3 DEF BeginUpdate, Processed, VerdictInv, OneVerdict
  <1>4. ASSUME NEW c \in Command, BeginUninstall(c) PROVE VerdictInv'
    BY <1>4 DEF BeginUninstall, Processed, VerdictInv, OneVerdict
  <1>5. ASSUME NEW c \in Command, UninstallNotMarked(c) PROVE VerdictInv'
    BY <1>5 DEF UninstallNotMarked, VerdictInv, OneVerdict
  <1>6. CASE MarkProcessed \/ RecordFails
    BY <1>6 DEF MarkProcessed, RecordFails, Marked, VerdictInv, OneVerdict
  <1>7. CASE Reexec \/ ManagerStarts
    BY <1>7 DEF Reexec, ManagerStarts, VerdictInv, OneVerdict
  <1>8. CASE StopServices
    BY <1>8 DEF StopServices, VerdictInv, OneVerdict
  <1>9. CASE Wipe
    BY <1>9 DEF Wipe, VerdictInv, OneVerdict
  <1>10. ASSUME NEW st, NEW v, Write(Result(st, v)), mpc \in {"write", "uninstall", "wipe"}
         PROVE  /\ OneVerdict'
                /\ \A r \in written' : r.cmd \in markers \cup expired
    <2>1. Result(st, v).cmd = cmd /\ written' = written \cup {Result(st, v)}
      BY <1>10 DEF Write, Result
    <2>2. \A r \in written : r.cmd # cmd /\ r.cmd \in markers \cup expired
      BY <1>10 DEF VerdictInv
    <2>3. cmd \in markers \cup expired
      BY <1>10 DEF VerdictInv
    <2> QED
      BY <2>1, <2>2, <2>3 DEF VerdictInv, OneVerdict
  <1>11. CASE WriteResult
    BY <1>10, <1>11 DEF WriteResult, VerdictInv
  <1>12. CASE StopFails
    BY <1>10, <1>12 DEF StopFails, VerdictInv
  <1>13. CASE WipeFails
    BY <1>10, <1>13 DEF WipeFails, VerdictInv
  <1> QED
    BY <1>1, <1>2, <1>3, <1>4, <1>5, <1>6, <1>7, <1>8, <1>9, <1>11, <1>12, <1>13, QuietSteps
    DEF Next, ManagerStep, Failure, Begin

-----------------------------------------------------------------------------
(* No reported update is lost.                                             *)

\* A newer release is at least as new as whatever an older one is.
LEMMA AtLeastUp ==
  ASSUME TypeOK, NEW v \in Versions, NEW w \in Versions, v <= w, AtLeast(v)
  PROVE  AtLeast(w)
  <1> SUFFICES ASSUME NEW r \in written, r.status = "succeeded" PROVE w >= r.version
    BY DEF AtLeast
  <1>1. r.version \in Nat /\ v \in Nat /\ w \in Nat
    BY VersionsAreNat DEF TypeOK, Results
  <1>2. v >= r.version
    BY DEF AtLeast
  <1> QED
    BY <1>1, <1>2

\* A step that leaves the binaries, the manager and the results alone.
LEMMA BinaryFrame ==
  ASSUME BinaryInv, UNCHANGED <<units, current, previous, mpc, cmd, mver, outcome, written>>
  PROVE  BinaryInv'
  BY DEF BinaryInv, AtLeast

\* A step of the manager between two commands, or towards the end of one.
LEMMA BinaryAtRest ==
  ASSUME BinaryInv, mpc \notin {"swap", "undo", "restore", "down"},
         UNCHANGED <<units, current, previous, mver, written>>,
         \/ mpc' \in {"idle", "remove", "install", "uninstall"}
         \/ mpc' = "mark" /\ outcome' = "failed"
         \/ mpc = "mark" /\ mpc' = "write" /\ UNCHANGED <<cmd, outcome>>
  PROVE  BinaryInv'
  BY DEF BinaryInv, AtLeast, Replacing

\* While renames do not fail, every step keeps m.version, the installed binary and
\* the backup at least as new as what was reported.
LEMMA BinaryStep ==
  ~RenameMayFail /\ TypeOK /\ VerdictInv /\ BinaryInv /\ [Next]_vars => BinaryInv'
  <1> SUFFICES ASSUME ~RenameMayFail, TypeOK, VerdictInv, BinaryInv, [Next]_vars PROVE BinaryInv'
    OBVIOUS
  <1> USE DEF binVars, managerVars, Goto, Ends, Rest
  <1>0. /\ \A v \in Versions : v \in Nat
        /\ {current, previous, mver} \subseteq Versions
        /\ cmd \in Command => cmd.target \in Versions
    BY VersionsAreNat DEF TypeOK, Versions
  <1>1. CASE AgentStep \/ SendFails \/ AgentCrash \/ UNCHANGED vars
    BY <1>1, BinaryFrame DEF AgentStep, SendFails, AgentCrash, ReadResult, SendResult, CompareResult,
                             RemoveResult, AgentStarts, vars
  <1>2. ASSUME NEW c \in Command, HandleCommand(c) \/ Expire(c) \/ CleanupProcessed(c)
        PROVE  BinaryInv'
    BY <1>2, BinaryFrame DEF HandleCommand, Expire, CleanupProcessed
  <1>3. ASSUME NEW c \in Command, Begin(c) PROVE BinaryInv'
    BY <1>3, BinaryAtRest DEF Begin, RejectRequest, BeginUpdate, BeginUninstall, UninstallNotMarked
  <1>4. CASE RemoveRequest \/ NotNewer \/ DownloadFails \/ SaveFails
    BY <1>4, BinaryAtRest DEF RemoveRequest, NotNewer, DownloadFails, SaveFails
  <1>5. CASE MarkProcessed \/ RecordFails \/ ReexecFails
    BY <1>5, BinaryAtRest DEF MarkProcessed, RecordFails, ReexecFails
  <1>6. CASE RemovePrevious
    BY <1>6 DEF RemovePrevious, Newer, BinaryInv, AtLeast, Replacing, TypeOK
  <1>7. CASE SaveCurrent
    BY <1>7 DEF SaveCurrent, Backup, BinaryInv, AtLeast, Replacing
  <1>8. CASE SwapIn
    <2>1. units => AtLeast(cmd.target) /\ cmd.target # 0
      BY <1>0, <1>8, AtLeastUp DEF SwapIn, BinaryInv, Replacing, TypeOK
    <2> QED
      BY <1>8, <2>1 DEF SwapIn, BinaryInv, AtLeast, Replacing
  <1>9. CASE SwapInFails
    BY <1>9 DEF SwapInFails, BinaryInv, AtLeast, Replacing
  <1>10. CASE UndoSave
    BY <1>10 DEF UndoSave, BinaryInv, AtLeast, Replacing, TypeOK
  <1>11. CASE RestartAgent \/ RestartFails \/ Unhealthy
    BY <1>11 DEF RestartAgent, RestartFails, Unhealthy, BinaryInv, AtLeast, Replacing
  <1>12. CASE Healthy
    BY <1>12 DEF Healthy, BinaryInv, AtLeast, Replacing
  <1>13. CASE RemoveCurrent
    BY <1>13 DEF RemoveCurrent, BinaryInv, AtLeast, Replacing, TypeOK
  <1>14. CASE RestorePrevious
    BY <1>14 DEF RestorePrevious, BinaryInv, AtLeast, Replacing, TypeOK
  <1>15. CASE WriteResult
    <2>1. CASE outcome = "succeeded" /\ Write(Result("succeeded", cmd.target)) /\ mver' = cmd.target
               /\ mpc' = "reexec"
      <3> SUFFICES ASSUME units PROVE BinaryInv'
        BY <1>15 DEF WriteResult, BinaryInv
      <3>1. current = cmd.target /\ mver < cmd.target /\ AtLeast(mver) /\ cmd.target \in Versions
        BY <1>0, <1>15, <2>1 DEF WriteResult, BinaryInv, TypeOK
      <3>2. AtLeast(cmd.target) /\ cmd.target # 0 /\ cmd.target \in Nat
        BY <1>0, <3>1, AtLeastUp
      <3>3. \A r \in written' : r.status = "succeeded" => cmd.target >= r.version
        BY <2>1, <3>2 DEF Write, Result, AtLeast
      <3> QED
        BY <1>15, <2>1, <3>1, <3>2, <3>3 DEF WriteResult, BinaryInv, AtLeast, Replacing
    <2>2. CASE Write(Result("failed", mver)) /\ mpc' = "remove" /\ UNCHANGED mver
      <3>1. ASSUME NEW v, AtLeast(v) PROVE \A r \in written' : r.status = "succeeded" => v >= r.version
        BY <2>2, <3>1 DEF Write, Result, AtLeast
      <3> QED
        BY <1>15, <2>2, <3>1 DEF WriteResult, BinaryInv, AtLeast, Replacing
    <2> QED
      BY <1>15, <2>1, <2>2 DEF WriteResult
  <1>16. CASE Reexec \/ ManagerStarts
    BY <1>16 DEF Reexec, ManagerStarts, BinaryInv, AtLeast, Replacing
  <1>17. CASE ManagerCrash
    BY <1>17 DEF ManagerCrash, BinaryInv, AtLeast, Replacing
  <1>18. CASE StopServices \/ StopFails \/ Wipe \/ WipeFails
    <2>1. ~units'
      BY <1>18 DEF StopServices, StopFails, Wipe, WipeFails, VerdictInv
    <2> QED
      BY <2>1 DEF BinaryInv
  <1> QED
    BY <1>1, <1>2, <1>3, <1>4, <1>5, <1>6, <1>7, <1>8, <1>9, <1>10, <1>11, <1>12, <1>13, <1>14,
       <1>15, <1>16, <1>17, <1>18
    DEF Next, ManagerStep, Failure

-----------------------------------------------------------------------------
(* The theorems.                                                           *)

\* The invariant holds initially.
LEMMA InitIInv == Init => IInv
  <1> SUFFICES ASSUME Init PROVE IInv
    OBVIOUS
  <1> USE MaintenanceAssumption DEF Init
  <1>1. TypeOK
    <2>1. 0 \in Versions /\ 1 \in Versions /\ 0 \in 0..MaxFaults
      BY DEF Versions
    <2> QED
      BY <2>1 DEF TypeOK, Steps
  <1>2. VerdictInv
    BY DEF VerdictInv, OneVerdict, Executing
  <1>3. BinaryInv
    BY DEF BinaryInv, AtLeast, Replacing
  <1> QED
    BY <1>1, <1>2, <1>3 DEF IInv

\* Every step keeps the invariant.
LEMMA StepIInv == IInv /\ [Next]_vars => IInv'
  BY TypeStep, VerdictStep, BinaryStep DEF IInv

\* The queue, the two binaries, the manager and what it has reported stay in
\* the relation of IInv wherever either process is cut off (manager.go:150-321).
THEOREM InvariantHolds == Spec => []IInv
  BY InitIInv, StepIInv, PTL DEF Spec

\* The manager has a command to execute, and a backup while it replaces the
\* installed binary (manager.go:150-321).
THEOREM TypeCorrect == Spec => []TypeOK
  <1>1. IInv => TypeOK
    BY DEF IInv
  <1> QED
    BY <1>1, InvariantHolds, PTL

\* However often a command is delivered, the manager restarted or the
\* processed directory removed, a command has one result (manager.go:219-224).
THEOREM VerdictIsFinal == Spec => []OneVerdict
  <1>1. IInv => OneVerdict
    BY DEF IInv, VerdictInv
  <1> QED
    BY <1>1, InvariantHolds, PTL

\* An update reported as succeeded is never undone, as long as the renames of
\* a rollback, whose errors installRelease ignores, do not fail
\* (manager.go:298-320).
THEOREM ReportedUpdateStays ==
  ASSUME RenameMayFail = FALSE
  PROVE  Spec => []SucceededNotLost
  <1>1. IInv => SucceededNotLost
    BY DEF IInv, BinaryInv, AtLeast, SucceededNotLost, Installed
  <1> QED
    BY <1>1, InvariantHolds, PTL

\* Under the same condition a binary is left to start or to restore
\* (manager.go:298-320).
THEOREM BinaryStays ==
  ASSUME RenameMayFail = FALSE
  PROVE  Spec => []OneBinaryLeft
  <1>1. IInv => OneBinaryLeft
    BY DEF IInv, BinaryInv, OneBinaryLeft, Installed
  <1> QED
    BY <1>1, InvariantHolds, PTL
=============================================================================
