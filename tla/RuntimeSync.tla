---------------------------- MODULE RuntimeSync ----------------------------
(***************************************************************************)
(* Desired state of a node: the signed configurations and user snapshots   *)
(* the control server sends, the tables that record which of them is       *)
(* applied, the Xray core that runs them, and the restoration of the core  *)
(* when the process starts.                                                *)
(*                                                                         *)
(* The handlers of the read loop run one at a time (runtimeSyncMu and the  *)
(* single reader), so what interleaves with their steps is the crash of    *)
(* the process, the failure of a step, and the order in which messages     *)
(* come.  A configuration is its version, its hash and its enabled         *)
(* inbounds; a credential is a subscriber, an inbound and a secret value.  *)
(* The core is "running", "none" (r.active = nil) or "closed" (r.active    *)
(* still points to a core whose Close has failed).                         *)
(***************************************************************************)
EXTENDS Naturals, FiniteSets

CONSTANTS Config,      \* the configurations the server may sign
          Snapshot,    \* the user snapshots the server may send
          NoConfig,    \* r.config before any configuration
          AllowStale,  \* may an old snapshot be delivered after a newer one
          MaxFaults    \* bound on crashes, failed steps and lost sessions

Inbound    == UNION {c.inbounds : c \in Config}
Credential == UNION {s.users : s \in Snapshot}
Subscriber == {u.sub : u \in Credential}
UserInbound == {u.inbound : u \in Credential}
Version    == {c.version : c \in Config}
Revision   == {s.rev : s \in Snapshot}
NoMsg      == [rev |-> 0]
NoReport   == [kind |-> "none"]

\* The primary keys of the tables, a server that never gives two snapshots
\* the same revision, and credentials that are their three fields.
ASSUME SyncAssumption ==
  /\ \A c \in Config : c.version \in Nat \ {0}
  /\ \A s \in Snapshot : s.rev \in Nat \ {0}
  /\ \A s, t \in Snapshot : s.rev = t.rev => s = t
  /\ \A s \in Snapshot : \A u, w \in s.users :
        u.sub = w.sub /\ u.inbound = w.inbound => u = w
  /\ \A u, w \in Credential :
        u.sub = w.sub /\ u.inbound = w.inbound /\ u.value = w.value => u = w
  /\ NoConfig \notin Config
  /\ AllowStale \in BOOLEAN
  /\ MaxFaults \in Nat

VARIABLES
  rows,       \* table config_revisions: [config, status]
  applied,    \* meta.applied_config_version
  userRows,   \* table users: [sub, inbound, ref], ref is the revision in secretRef
  userRev,    \* meta.applied_user_revision
  secrets,    \* user secrets on disk: [sub, inbound, ref, value]
  core,       \* r.active
  conf,       \* r.config
  users,      \* r.users
  served,     \* credentials the running core accepts
  pc,         \* where the process stands
  msg,        \* the message being handled, or NoMsg
  left,       \* credentials whose secret is still to be stored
  session,    \* is a control session up
  opened,     \* secretVersions of the session
  report,     \* the result sent for the last message, or NoReport
  want,       \* the configuration the server wants
  wantUsers,  \* the snapshot the server wants
  acked,      \* history: highest revision reported as succeeded
  faults

storeVars   == <<rows, applied, userRows, userRev, secrets>>
runtimeVars == <<core, conf, users, served>>
handlerVars == <<pc, msg, left>>
serverVars  == <<want, wantUsers>>
vars == <<rows, applied, userRows, userRev, secrets, core, conf, users, served,
          pc, msg, left, session, opened, report, want, wantUsers, acked, faults>>

Init == /\ rows = {} /\ applied = 0
        /\ userRows = {} /\ userRev = 0 /\ secrets = {}
        /\ core = "none" /\ conf = NoConfig /\ users = {} /\ served = {}
        /\ pc = "restore" /\ msg = NoMsg /\ left = {}
        /\ session = FALSE /\ opened = {} /\ report = NoReport
        /\ want \in {c \in Config : \A d \in Config : c.version <= d.version}
        /\ wantUsers \in {s \in Snapshot : \A t \in Snapshot : s.rev <= t.rev}
        /\ acked = 0 /\ faults = 0

Fault == faults < MaxFaults /\ faults' = faults + 1

UnfilteredUsers(c, us) == us

\* usersAvailableInConfig
AvailableIn(c, us) == {u \in us : u.inbound \in c.inbounds}

\* panelUsersByInbound succeeds
AllAvailable(c, us) == \A u \in us : u.inbound \in c.inbounds

-----------------------------------------------------------------------------
(* The process starts: restoreRuntime, then ResetAppliedRuntime if it      *)
(* failed.                                                                 *)

AppliedRow == {r \in rows : r.config.version = applied /\ r.status = "applied"}

\* Users and resolveStoredUsers
StoredUsers == {u \in Credential :
                  \E r \in userRows, x \in secrets :
                    /\ r.sub = u.sub /\ r.inbound = u.inbound
                    /\ x.sub = r.sub /\ x.inbound = r.inbound /\ x.ref = r.ref
                    /\ x.value = u.value}

Resolvable == \A r \in userRows : \E x \in secrets :
                x.sub = r.sub /\ x.inbound = r.inbound /\ x.ref = r.ref

\* No applied configuration (sql.ErrNoRows): nothing to restore.
RestoreNothing == /\ pc = "restore"
                  /\ applied = 0 \/ AppliedRow = {}
                  /\ pc' = "idle"
                  /\ UNCHANGED <<storeVars, runtimeVars, msg, left, session, opened, report,
                                 serverVars, acked, faults>>

\* ApplyConfig, Users, resolveStoredUsers and ApplyUsers all succeed.
RestoreRuntime == /\ pc = "restore"
                  /\ applied # 0
                  /\ \E r \in AppliedRow :
                       /\ Resolvable
                       /\ AllAvailable(r.config, StoredUsers)
                       /\ conf' = r.config
                  /\ core' = "running" /\ users' = StoredUsers /\ served' = StoredUsers
                  /\ pc' = "idle"
                  /\ UNCHANGED <<storeVars, msg, left, session, opened, report, serverVars,
                                 acked, faults>>

\* The users cannot be resolved, or one of them references an inbound the
\* configuration does not have: the core runs the configuration alone.
RestoreUsersFails == /\ pc = "restore"
                     /\ applied # 0
                     /\ \E r \in AppliedRow :
                          /\ ~(Resolvable /\ AllAvailable(r.config, StoredUsers))
                          /\ conf' = r.config
                     /\ core' = "running" /\ users' = {} /\ served' = {}
                     /\ pc' = "reset"
                     /\ UNCHANGED <<storeVars, msg, left, session, opened, report, serverVars,
                                    acked, faults>>

\* The core does not start with the stored configuration.
RestoreCoreFails == /\ Fault
                    /\ pc = "restore"
                    /\ applied # 0 /\ AppliedRow # {}
                    /\ pc' = "reset"
                    /\ UNCHANGED <<storeVars, runtimeVars, msg, left, session, opened, report,
                                   serverVars, acked>>

\* One transaction; the users table is left as it is.
ResetAppliedRuntime ==
  /\ pc = "reset"
  /\ rows' = {IF r.config.version = applied THEN [r EXCEPT !.status = "received"] ELSE r
                : r \in rows}
  /\ applied' = 0 /\ userRev' = 0
  /\ pc' = "idle"
  /\ UNCHANGED <<userRows, secrets, runtimeVars, msg, left, session, opened, report,
                 serverVars, acked, faults>>

\* The process dies, at any point, and is started again.
Restart == /\ core' = "none" /\ conf' = NoConfig /\ users' = {} /\ served' = {}
           /\ pc' = "restore" /\ msg' = NoMsg /\ left' = {}
           /\ session' = FALSE /\ opened' = {} /\ report' = NoReport
           /\ UNCHANGED <<storeVars, serverVars, acked>>

Crash == Fault /\ Restart

\* A collector or DelUsers dereferences the dispatcher of a closed core.
Panic == core = "closed" /\ Restart /\ UNCHANGED faults

-----------------------------------------------------------------------------
(* The control session and the server.                                     *)

SessionStarts == /\ pc = "idle" /\ ~session
                 /\ session' = TRUE /\ opened' = {}
                 /\ UNCHANGED <<storeVars, runtimeVars, handlerVars, report, serverVars, acked, faults>>

SessionEnds == /\ Fault
               /\ pc = "idle" /\ session
               /\ session' = FALSE /\ opened' = {}
               /\ UNCHANGED <<storeVars, runtimeVars, handlerVars, report, serverVars, acked>>

\* An administrator changes the desired state.
WantConfig(c) == /\ c.version > want.version
                 /\ want' = c
                 /\ UNCHANGED <<storeVars, runtimeVars, handlerVars, session, opened, report,
                                wantUsers, acked, faults>>

WantUsers(s) == /\ s.rev > wantUsers.rev
                /\ wantUsers' = s
                /\ UNCHANGED <<storeVars, runtimeVars, handlerVars, session, opened, report,
                               want, acked, faults>>

\* applySecretEnvelope: the secrets of version v are stored, which lets the
\* session apply that version.
ReceiveSecrets(v) == /\ pc = "idle" /\ session
                     /\ v \notin opened
                     /\ opened' = opened \cup {v}
                     /\ UNCHANGED <<storeVars, runtimeVars, handlerVars, session, report,
                                    serverVars, acked, faults>>

-----------------------------------------------------------------------------
(* applyDesiredConfig                                                      *)

Same(c)     == {r \in rows : r.config.version = c.version}
Succeeded(c) == report' = [kind |-> "config", config |-> c, status |-> "succeeded"]

AlreadyKnown(r) == TRUE
AlreadyApplied(r) == r.status = "applied"

RowsUnchanged(c) == rows
RowsWith(c) == rows \cup {[config |-> c, status |-> "received"]}

InsertAnyVersion(c) == Same(c) = {}
Insertable(c) == Same(c) = {} /\ c.version > applied

\* SaveDesiredConfig accepts a configuration whose version is new, or known
\* under the same hash and not yet applied; a known version with another hash,
\* and a version that is not newer, are refused and change nothing.
ReceiveConfig(c) ==
  /\ pc = "idle" /\ session
  /\ c.version \in opened
  /\ c.version <= want.version
  /\ \/ /\ \E r \in Same(c) : r.config = c /\ AlreadyApplied(r)
        /\ Succeeded(c)
        /\ UNCHANGED <<rows, pc, msg>>
     \/ /\ \E r \in Same(c) : r.config = c /\ ~AlreadyApplied(r)
        /\ pc' = "applyConfig" /\ msg' = c /\ report' = NoReport
        /\ UNCHANGED rows
     \/ /\ Insertable(c)
        /\ rows' = RowsWith(c)
        /\ pc' = "applyConfig" /\ msg' = c /\ report' = NoReport
  /\ UNCHANGED <<applied, userRows, userRev, secrets, runtimeVars, left, session, opened,
                 serverVars, acked, faults>>

\* ApplyConfig: close the previous core, start the candidate with the users
\* the configuration still has inbounds for.
ApplyConfig == /\ pc = "applyConfig"
               /\ core' = "running" /\ conf' = msg
               /\ users' = AvailableIn(msg, users) /\ served' = AvailableIn(msg, users)
               /\ pc' = "markConfig"
               /\ UNCHANGED <<storeVars, msg, left, session, opened, report, serverVars,
                              acked, faults>>

\* ApplyConfig fails: before the previous core is touched; because closing it
\* failed, which leaves r.active pointing to it; or because the candidate does
\* not start, and the previous configuration is started again or not.
ApplyConfigFails ==
  /\ Fault
  /\ pc = "applyConfig"
  /\ \/ UNCHANGED <<core, served>>
     \/ core = "running" /\ core' = "closed" /\ served' = {}
     \/ conf # NoConfig /\ core' = "running" /\ served' = users
     \/ core' = "none" /\ served' = {}
  /\ pc' = "idle" /\ msg' = NoMsg
  /\ report' = [kind |-> "config", config |-> msg, status |-> "failed"]
  /\ UNCHANGED <<storeVars, conf, users, left, session, opened, serverVars, acked>>

KeepOlderRows(c) == {r \in rows : r.config.version # c.version /\ r.status = "applied"}
                      \cup {[config |-> c, status |-> "applied"]}

\* UPDATE ... SET status = 'applied'; DELETE ... WHERE status != 'applied' OR
\* version < ?  The error of the DELETE is not looked at: what makes it fail, a
\* cancelled context or a failing disk, fails Commit as well (MarkConfigFails).
RowsAfterMark(c) ==
  {r \in rows : r.config.version > c.version /\ r.status = "applied"}
    \cup {[config |-> c, status |-> "applied"]}

MarkConfigApplied == /\ pc = "markConfig"
                     /\ rows' = RowsAfterMark(msg)
                     /\ applied' = msg.version
                     /\ pc' = "idle" /\ msg' = NoMsg
                     /\ Succeeded(msg)
                     /\ UNCHANGED <<userRows, userRev, secrets, runtimeVars, left, session, opened,
                                    serverVars, acked, faults>>

MarkConfigFails == /\ Fault
                   /\ pc = "markConfig"
                   /\ pc' = "idle" /\ msg' = NoMsg
                   /\ UNCHANGED <<storeVars, runtimeVars, left, session, opened, report,
                                  serverVars, acked>>

-----------------------------------------------------------------------------
(* applyUserSnapshot and applyUserDisconnect                               *)

\* DelUsers, one call per inbound: removes the given credentials, and stops at
\* the first one the core does not have.
DelUsers(stale) ==
  \E gone \in SUBSET (stale \cap served) :
    /\ \A i \in Inbound : LET here == {u \in stale : u.inbound = i} IN
                            here \subseteq served => here \subseteq gone
    /\ served' = served \ gone

Disconnects == core # "none" /\ conf # NoConfig /\ users # {}

\* DisconnectUsers of what the snapshot removes or changes; its error is only
\* logged.
ReceiveUsers(s) ==
  /\ pc = "idle" /\ session
  /\ s.rev <= wantUsers.rev
  /\ AllowStale \/ s = wantUsers
  /\ LET stale == IF Disconnects THEN users \ s.users ELSE {} IN
       /\ core = "closed" => stale = {}
       /\ DelUsers(stale)
  /\ pc' = "applyUsers" /\ msg' = s /\ report' = NoReport
  /\ UNCHANGED <<storeVars, core, conf, users, left, session, opened, serverVars, acked, faults>>

\* ApplyUsers succeeds: with no core only for an empty snapshot, else by
\* rebuilding the core.
ApplyUsers ==
  /\ pc = "applyUsers"
  /\ \/ /\ core = "none" \/ conf = NoConfig
        /\ msg.users = {}
        /\ UNCHANGED core
     \/ /\ core # "none" /\ conf # NoConfig
        /\ AllAvailable(conf, msg.users)
        /\ core' = "running"
  /\ users' = msg.users /\ served' = msg.users
  /\ pc' = "putSecrets" /\ left' = msg.users
  /\ UNCHANGED <<storeVars, conf, msg, session, opened, report, serverVars, acked, faults>>

UsersRefused == /\ pc' = "idle" /\ msg' = NoMsg
                /\ report' = [kind |-> "users", rev |-> msg.rev, status |-> "failed"]

\* ApplyUsers refuses the snapshot before it touches the core.
ApplyUsersRefuses ==
  /\ pc = "applyUsers"
  /\ \/ (core = "none" \/ conf = NoConfig) /\ msg.users # {}
     \/ core # "none" /\ conf # NoConfig /\ ~AllAvailable(conf, msg.users)
  /\ UsersRefused
  /\ UNCHANGED <<storeVars, runtimeVars, left, session, opened, serverVars, acked, faults>>

\* Closing the core or starting the candidate fails; the previous users are
\* started again, or that fails too.
ApplyUsersFails ==
  /\ Fault
  /\ pc = "applyUsers"
  /\ core # "none" /\ conf # NoConfig
  /\ \/ core' = "running" /\ served' = users
     \/ core' = "none" /\ served' = {}
  /\ UsersRefused
  /\ UNCHANGED <<storeVars, conf, users, left, session, opened, serverVars, acked>>

\* secrets.Put of one credential under the reference of this revision.
PutSecret(u) ==
  /\ pc = "putSecrets"
  /\ u \in left
  /\ secrets' = {x \in secrets : ~(x.sub = u.sub /\ x.inbound = u.inbound /\ x.ref = msg.rev)}
                  \cup {[sub |-> u.sub, inbound |-> u.inbound, ref |-> msg.rev, value |-> u.value]}
  /\ left' = left \ {u}
  /\ UNCHANGED <<rows, applied, userRows, userRev, runtimeVars, pc, msg, session, opened,
                 report, serverVars, acked, faults>>

RowsOf(s) == {[sub |-> u.sub, inbound |-> u.inbound, ref |-> s.rev] : u \in s.users}

UpsertedRows(s) == RowsOf(s) \cup {r \in userRows : \A n \in RowsOf(s) :
                                      n.sub # r.sub \/ n.inbound # r.inbound}

\* DELETE FROM users; then one INSERT per credential.
UserRowsAfter(s) == RowsOf(s)

BeforeAllPut == pc = "putSecrets"
AllPut == pc = "putSecrets" /\ left = {}

\* ReplaceUsers: an equal revision commits nothing.
ReplaceUsers ==
  /\ AllPut
  /\ \/ /\ msg.rev = userRev
        /\ UNCHANGED <<userRows, userRev>>
     \/ /\ msg.rev > userRev
        /\ userRows' = UserRowsAfter(msg) /\ userRev' = msg.rev
  /\ pc' = "idle" /\ msg' = NoMsg /\ left' = {}
  /\ report' = [kind |-> "users", rev |-> msg.rev, status |-> "succeeded"]
  /\ acked' = IF msg.rev > acked THEN msg.rev ELSE acked
  /\ UNCHANGED <<rows, applied, secrets, runtimeVars, session, opened, serverVars, faults>>

\* ReplaceUsers refuses a stale revision, after the core runs its users.
ReplaceUsersStale ==
  /\ AllPut
  /\ msg.rev < userRev
  /\ pc' = "idle" /\ msg' = NoMsg /\ left' = {}
  /\ UNCHANGED <<storeVars, runtimeVars, session, opened, report, serverVars, acked, faults>>

\* A Put or the transaction fails.
StoreUsersFails ==
  /\ Fault
  /\ pc = "putSecrets"
  /\ pc' = "idle" /\ msg' = NoMsg /\ left' = {}
  /\ UNCHANGED <<storeVars, runtimeVars, session, opened, report, serverVars, acked>>

\* applyUserDisconnect: DisconnectSubscribers of one subscriber.
ReceiveDisconnect(sub) ==
  /\ pc = "idle" /\ session
  /\ Disconnects /\ core = "running"
  /\ DelUsers({u \in users : u.sub = sub})
  /\ report' = NoReport
  /\ UNCHANGED <<storeVars, core, conf, users, handlerVars, session, opened, serverVars,
                 acked, faults>>

-----------------------------------------------------------------------------
StartStep   == RestoreNothing \/ RestoreRuntime \/ RestoreUsersFails \/ ResetAppliedRuntime
ConfigStep  == ApplyConfig \/ MarkConfigApplied
UserStep    == \/ ApplyUsers \/ ApplyUsersRefuses \/ ReplaceUsers \/ ReplaceUsersStale
               \/ \E u \in Credential : PutSecret(u)
FailureStep == \/ RestoreCoreFails \/ ApplyConfigFails \/ MarkConfigFails \/ ApplyUsersFails
               \/ StoreUsersFails \/ SessionEnds \/ Crash

Next == \/ StartStep \/ ConfigStep \/ UserStep \/ FailureStep \/ Panic \/ SessionStarts
        \/ \E c \in Config : ReceiveConfig(c) \/ WantConfig(c)
        \/ \E s \in Snapshot : ReceiveUsers(s) \/ WantUsers(s)
        \/ \E v \in Version : ReceiveSecrets(v)
        \/ \E u \in Credential : ReceiveDisconnect(u.sub)

Spec == Init /\ [][Next]_vars

\* The process runs its code, Run reconnects, and the server sends what the
\* agent's reported versions show it lacks.
Fairness == /\ WF_vars(StartStep) /\ WF_vars(ConfigStep) /\ WF_vars(UserStep)
            /\ WF_vars(SessionStarts)
            /\ SF_vars(ReceiveSecrets(want.version))
            /\ SF_vars(applied # want.version /\ ReceiveConfig(want))
            /\ SF_vars(userRev # wantUsers.rev /\ ReceiveUsers(wantUsers))

FairSpec == Spec /\ Fairness
-----------------------------------------------------------------------------
Handling == {"applyConfig", "markConfig", "applyUsers", "putSecrets"}

\* Every variable ranges over the values the program can give it, a handler's
\* message is of the handler's kind, and the row MarkConfigApplied is going to
\* update is there (client.go:474-573, store.go:321).
TypeOK == /\ rows \subseteq [config : Config, status : {"received", "applied"}]
          /\ applied \in Version \cup {0}
          /\ userRows \subseteq [sub : Subscriber, inbound : UserInbound, ref : Revision]
          /\ userRev \in Revision \cup {0}
          /\ secrets \subseteq [sub : Subscriber, inbound : UserInbound, ref : Revision,
                                value : {u.value : u \in Credential}]
          /\ core \in {"running", "none", "closed"}
          /\ conf \in Config \cup {NoConfig}
          /\ users \subseteq Credential /\ served \subseteq Credential
          /\ pc \in {"restore", "reset", "idle"} \cup Handling
          /\ pc \in {"applyConfig", "markConfig"}
               => msg \in Config /\ [config |-> msg, status |-> "received"] \in rows
          /\ pc \in {"applyUsers", "putSecrets"} => msg \in Snapshot /\ left \subseteq msg.users
          /\ session \in BOOLEAN /\ opened \subseteq Version
          /\ want \in Config /\ wantUsers \in Snapshot
          /\ acked \in Revision \cup {0} /\ faults \in 0..MaxFaults

\* The configuration meta names is there to be restored, is the only applied
\* one, and nothing older is kept beside it, whatever failed or crashed
\* between SaveDesiredConfig, MarkConfigApplied and ResetAppliedRuntime
\* (store.go:239-335): AppliedConfig never mistakes an applied version for
\* "nothing to restore".
AppliedRowUnique ==
  /\ applied # 0 => Cardinality(AppliedRow) = 1
  /\ \A r \in rows : /\ r.status = "applied" <=> r.config.version = applied
                     /\ r.config.version >= applied

\* The users table can always be turned back into credentials: it holds one
\* whole snapshot, and every reference in it resolves to the value that
\* snapshot gave (client.go:560-569, secretstore/store.go:69, main.go:153),
\* although the secrets are written one by one before the transaction.
StoredUsersResolve ==
  /\ Resolvable
  /\ userRows = {} \/ \E s \in Snapshot : userRows = RowsOf(s) /\ StoredUsers = s.users

\* A credential the server saw revoked never works again: once revision
\* acked was reported as succeeded, the core serves only credentials of that
\* snapshot or of later ones, across failed rebuilds, restarts and resets
\* (ReplaceUsers, store.go:38; restoreRuntime, main.go:122).
RevokedStaysRevoked ==
  served \subseteq UNION {s.users : s \in {t \in Snapshot : t.rev >= acked}}

\* A configuration reported as succeeded is the durable one, also when the
\* result is sent again for a redelivered version (client.go:493-508).
ConfirmedConfigDurable ==
  report.kind = "config" /\ report.status = "succeeded" /\ pc = "idle"
    => \E r \in AppliedRow : r.config = report.config

\* The core never runs a configuration older than the one the agent reports
\* as applied (RuntimeState, store.go:215): a failed or interrupted change
\* falls back to the applied configuration, never behind it.
NeverBehindReported == core = "running" /\ pc # "reset" => applied <= conf.version

\* A running core accepts nothing but credentials for its own inbounds, and
\* ApplyConfig's filter keeps the rebuild of a later ApplyUsers restore
\* possible (xray.go:45-102, 119-136).
UsersFitConfig == core = "running" => AllAvailable(conf, users) /\ AllAvailable(conf, served)

\* A rebuild that lost the core while the store says the configuration is
\* applied is repaired by nothing but a restart (xray.go:107, store.go:283).
CoreLost == core # "running" /\ applied = want.version

\* Once the desired state stays consistent and the core is not lost for good,
\* the agent reports the desired versions and runs the desired configuration,
\* in spite of crashes, failed steps, refused snapshots and lost sessions.
Converged == applied = want.version /\ userRev = wantUsers.rev /\ core = "running" /\ conf = want
Converges == <>[](AllAvailable(want, wantUsers.users) /\ ~(pc = "idle" /\ CoreLost))
               => <>[]Converged
=============================================================================
