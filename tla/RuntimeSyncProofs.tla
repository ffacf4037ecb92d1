------------------------- MODULE RuntimeSyncProofs -------------------------
(***************************************************************************)
(* Proofs about RuntimeSync for every set of configurations and snapshots  *)
(* and every number of faults: the tables stay restorable, the core stays  *)
(* consistent with them, and a revoked credential stays revoked.           *)
(***************************************************************************)
EXTENDS RuntimeSync, TLAPS, FiniteSetTheorems

\* The entry secrets.Put makes for credential u of snapshot s.
SecretOf(u, s) == [sub |-> u.sub, inbound |-> u.inbound, ref |-> s.rev, value |-> u.value]

\* The users table is snapshot s, and its secrets are on disk.
Holds(s) == userRows = RowsOf(s) /\ \A u \in s.users : SecretOf(u, s) \in secrets

\* Types, and no credentials left over when none are being stored.
TypeInv == TypeOK /\ (pc # "putSecrets" => left = {})

\* Table config_revisions has one row per version; the applied one is the
\* oldest and the only one marked so.
RowsInv ==
  /\ \A r, q \in rows : r.config.version = q.config.version => r = q
  /\ \A r \in rows : /\ r.status = "applied" <=> r.config.version = applied
                     /\ r.config.version >= applied
  /\ applied # 0 => \E r \in rows : r.config.version = applied

\* Secrets are those of some snapshot, those of the one being stored are there
\* as far as they are not left, and the users table is one whole snapshot, the
\* one userRev names unless that was reset.
SecretsInv ==
  /\ \A x \in secrets : \E s \in Snapshot : \E u \in s.users : x = SecretOf(u, s)
  /\ pc = "putSecrets" => \A u \in msg.users : u \in left \/ SecretOf(u, msg) \in secrets
  /\ \/ userRows = {} /\ userRev = 0 /\ acked = 0
     \/ \E s \in Snapshot : /\ Holds(s)
                            /\ userRev # 0 => s.rev = userRev
                            /\ AllowStale \/ acked <= s.rev

\* What the process knows agrees with the tables: r.config is never older than
\* the applied configuration, also while no core runs, and fits r.users.
CoreInv ==
  /\ pc = "restore" => core = "none" /\ conf = NoConfig /\ users = {}
  /\ pc # "idle" => report = NoReport
  /\ pc = "markConfig" => core = "running" /\ conf = msg
  /\ pc = "putSecrets" => users = msg.users
  /\ served \subseteq users
  /\ core # "none" => conf # NoConfig
  /\ conf # NoConfig => /\ AllAvailable(conf, users)
                        /\ pc # "reset" => applied <= conf.version
  /\ ConfirmedConfigDurable

\* Credentials of the acknowledged snapshot or of later ones.
Current(us) == \A u \in us : \E s \in Snapshot : s.rev >= acked /\ u \in s.users

\* Without stale deliveries nothing older than acked is handled or kept.
FreshInv ==
  AllowStale \/ /\ acked <= wantUsers.rev
                /\ pc \in {"applyUsers", "putSecrets"}
                     => acked <= msg.rev /\ msg.rev <= wantUsers.rev
                /\ Current(users)

\* The inductive invariant.
IInv == TypeInv /\ RowsInv /\ SecretsInv /\ CoreInv /\ FreshInv

-----------------------------------------------------------------------------
(* Which steps change what.                                                *)

\* The steps that write config_revisions.
LEMMA WhoWritesRows ==
  ASSUME [Next]_vars
  PROVE  \/ UNCHANGED <<rows, applied>>
         \/ \E c \in Config : ReceiveConfig(c)
         \/ MarkConfigApplied
         \/ ResetAppliedRuntime
  <1> USE DEF storeVars, vars
  <1>1. CASE StartStep \/ ConfigStep
    BY <1>1 DEF StartStep, ConfigStep, RestoreNothing, RestoreRuntime, RestoreUsersFails, ApplyConfig
  <1>2. CASE UserStep
    BY <1>2 DEF UserStep, ApplyUsers, ApplyUsersRefuses, ReplaceUsers, ReplaceUsersStale, PutSecret
  <1>3. CASE FailureStep \/ Panic
    BY <1>3 DEF FailureStep, Panic, RestoreCoreFails, ApplyConfigFails, MarkConfigFails,
                ApplyUsersFails, StoreUsersFails, SessionEnds, Crash, Restart
  <1> QED
    BY <1>1, <1>2, <1>3
    DEF Next, SessionStarts, WantConfig, ReceiveUsers, WantUsers, ReceiveSecrets, ReceiveDisconnect

\* The steps that write the users table or a secret, or start to.
LEMMA WhoWritesUsers ==
  ASSUME [Next]_vars
  PROVE  \/ /\ UNCHANGED <<userRows, userRev, secrets, acked>>
            /\ pc' # "putSecrets" \/ UNCHANGED <<pc, msg, left>>
         \/ ApplyUsers \/ ReplaceUsers \/ ResetAppliedRuntime
         \/ \E u \in Credential : PutSecret(u)
  <1> USE DEF storeVars, handlerVars, vars
  <1>1. CASE StartStep \/ ConfigStep
    BY <1>1 DEF StartStep, ConfigStep, RestoreNothing, RestoreRuntime, RestoreUsersFails, ApplyConfig,
                MarkConfigApplied
  <1>2. CASE UserStep
    BY <1>2 DEF UserStep, ApplyUsersRefuses, UsersRefused, ReplaceUsersStale
  <1>3. CASE FailureStep \/ Panic
    BY <1>3 DEF FailureStep, Panic, RestoreCoreFails, ApplyConfigFails, MarkConfigFails,
                ApplyUsersFails, UsersRefused, StoreUsersFails, SessionEnds, Crash, Restart
  <1>4. ASSUME NEW c \in Config, ReceiveConfig(c)
        PROVE  /\ UNCHANGED <<userRows, userRev, secrets, acked>>
               /\ pc' # "putSecrets"
    BY <1>4 DEF ReceiveConfig
  <1> QED
    BY <1>1, <1>2, <1>3, <1>4
    DEF Next, SessionStarts, WantConfig, ReceiveUsers, WantUsers, ReceiveSecrets, ReceiveDisconnect

-----------------------------------------------------------------------------
(* Types.                                                                  *)

\* A row for configuration c is [config |-> c, status |-> ...].
LEMMA RowShape ==
  ASSUME NEW r \in [config : Config, status : {"received", "applied"}]
  PROVE  r = [config |-> r.config, status |-> r.status]
  OBVIOUS

\* Credentials of a snapshot are credentials.
LEMMA UsersAreCredentials ==
  ASSUME NEW s \in Snapshot
  PROVE  s.users \subseteq Credential
  BY DEF Credential

\* Every step keeps types.
LEMMA TypeStep == TypeInv /\ [Next]_vars => TypeInv'
  <1> SUFFICES ASSUME TypeInv, [Next]_vars PROVE TypeInv'
    OBVIOUS
  <1> USE SyncAssumption
  <1> USE DEF TypeInv, TypeOK, Handling, storeVars, runtimeVars, handlerVars, serverVars
  <1>1. CASE StartStep
    <2>1. CASE RestoreNothing
      BY <2>1 DEF RestoreNothing
    <2>2. CASE RestoreRuntime
      <3>1. StoredUsers \subseteq Credential
        BY DEF StoredUsers
      <3> QED
        BY <2>2, <3>1 DEF RestoreRuntime, AppliedRow
    <2>3. CASE RestoreUsersFails
      BY <2>3 DEF RestoreUsersFails, AppliedRow
    <2>4. CASE ResetAppliedRuntime
      BY <2>4 DEF ResetAppliedRuntime
    <2> QED
      BY <1>1, <2>1, <2>2, <2>3, <2>4 DEF StartStep
  <1>2. CASE ConfigStep
    <2>1. CASE ApplyConfig
      BY <2>1 DEF ApplyConfig, AvailableIn
    <2>2. CASE MarkConfigApplied
      BY <2>2 DEF MarkConfigApplied, RowsAfterMark, Version
    <2> QED
      BY <1>2, <2>1, <2>2 DEF ConfigStep
  <1>3. CASE UserStep
    <2>1. CASE ApplyUsers
      BY <2>1, UsersAreCredentials DEF ApplyUsers
    <2>2. CASE ApplyUsersRefuses
      BY <2>2 DEF ApplyUsersRefuses, UsersRefused
    <2>3. CASE ReplaceUsers
      <3>1. msg \in Snapshot /\ msg.rev \in Revision
        BY <2>3 DEF ReplaceUsers, AllPut, Revision
      <3>2. RowsOf(msg) \subseteq [sub : Subscriber, inbound : UserInbound, ref : Revision]
        BY <3>1, UsersAreCredentials DEF RowsOf, Subscriber, UserInbound
      <3>3. UNCHANGED userRows \/ userRows' = RowsOf(msg)
        BY <2>3 DEF ReplaceUsers, UserRowsAfter
      <3>4. userRev' \in Revision \cup {0} /\ acked' \in Revision \cup {0}
        BY <2>3, <3>1 DEF ReplaceUsers
      <3> QED
        BY <2>3, <3>2, <3>3, <3>4 DEF ReplaceUsers
    <2>4. CASE ReplaceUsersStale
      BY <2>4 DEF ReplaceUsersStale
    <2>5. ASSUME NEW u \in Credential, PutSecret(u) PROVE TypeInv'
      <3>1. [sub |-> u.sub, inbound |-> u.inbound, ref |-> msg.rev, value |-> u.value]
              \in [sub : Subscriber, inbound : UserInbound, ref : Revision,
                   value : {w.value : w \in Credential}]
        BY <2>5 DEF PutSecret, Subscriber, UserInbound, Revision
      <3> QED
        BY <2>5, <3>1 DEF PutSecret
    <2> QED
      BY <1>3, <2>1, <2>2, <2>3, <2>4, <2>5 DEF UserStep
  <1>4. CASE FailureStep \/ Panic
    <2>0. Fault => faults' \in 0..MaxFaults
      BY DEF Fault
    <2>1. CASE RestoreCoreFails \/ MarkConfigFails \/ StoreUsersFails \/ SessionEnds
      BY <2>0, <2>1 DEF RestoreCoreFails, MarkConfigFails, StoreUsersFails, SessionEnds
    <2>2. CASE ApplyConfigFails
      BY <2>0, <2>2 DEF ApplyConfigFails
    <2>3. CASE ApplyUsersFails
      BY <2>0, <2>3 DEF ApplyUsersFails, UsersRefused
    <2>4. CASE Crash \/ Panic
      BY <2>0, <2>4 DEF Crash, Panic, Restart
    <2> QED
      BY <1>4, <2>1, <2>2, <2>3, <2>4 DEF FailureStep
  <1>5. CASE SessionStarts
    BY <1>5 DEF SessionStarts
  <1>6. ASSUME NEW c \in Config, ReceiveConfig(c) PROVE TypeInv'
    <2>1. rows \subseteq rows' /\ rows' \subseteq [config : Config, status : {"received", "applied"}]
      BY <1>6 DEF ReceiveConfig, RowsWith
    <2>2. pc' = "idle" \/ (pc' = "applyConfig" /\ msg' = c)
      BY <1>6 DEF ReceiveConfig
    <2>3. pc' = "applyConfig" => [config |-> c, status |-> "received"] \in rows'
      <3>1. ASSUME NEW r \in Same(c), r.config = c, ~AlreadyApplied(r)
            PROVE  [config |-> c, status |-> "received"] \in rows
        BY <3>1, RowShape DEF Same, AlreadyApplied
      <3> QED
        BY <1>6, <2>1, <3>1 DEF ReceiveConfig, RowsWith
    <2> QED
      BY <1>6, <2>1, <2>2, <2>3 DEF ReceiveConfig
  <1>7. ASSUME NEW c \in Config, WantConfig(c) PROVE TypeInv'
    BY <1>7 DEF WantConfig
  <1>8. ASSUME NEW s \in Snapshot, ReceiveUsers(s) PROVE TypeInv'
    <2>1. served' \subseteq Credential
      BY <1>8 DEF ReceiveUsers, DelUsers
    <2> QED
      BY <1>8, <2>1 DEF ReceiveUsers
  <1>9. ASSUME NEW s \in Snapshot, WantUsers(s) PROVE TypeInv'
    BY <1>9 DEF WantUsers
  <1>10. ASSUME NEW v \in Version, ReceiveSecrets(v) PROVE TypeInv'
    BY <1>10 DEF ReceiveSecrets
  <1>11. ASSUME NEW u \in Credential, ReceiveDisconnect(u.sub) PROVE TypeInv'
    <2>1. served' \subseteq Credential
      BY <1>11 DEF ReceiveDisconnect, DelUsers
    <2> QED
      BY <1>11, <2>1 DEF ReceiveDisconnect
  <1>12. CASE UNCHANGED vars
    BY <1>12 DEF vars
  <1> QED
    BY <1>1, <1>2, <1>3, <1>4, <1>5, <1>6, <1>7, <1>8, <1>9, <1>10, <1>11, <1>12 DEF Next

-----------------------------------------------------------------------------
(* The table of configurations.                                            *)

\* A configuration being applied is newer than the applied one
\* (SaveDesiredConfig, store.go:239).
LEMMA CandidateIsNewer ==
  ASSUME TypeOK, RowsInv, pc \in {"applyConfig", "markConfig"}
  PROVE  msg \in Config /\ msg.version \in Nat \ {0} /\ applied \in Nat /\ applied < msg.version
  <1> DEFINE r == [config |-> msg, status |-> "received"]
  <1>1. msg \in Config /\ r \in rows
    BY DEF TypeOK
  <1>2. msg.version \in Nat \ {0} /\ applied \in Nat
    BY <1>1, SyncAssumption DEF TypeOK, Version
  <1>3. r.config.version >= applied /\ r.config.version # applied
    BY <1>1 DEF RowsInv
  <1> QED
    BY <1>1, <1>2, <1>3

\* MarkConfigApplied leaves the row it marks and no other (store.go:321).
LEMMA OneRowAfterMark ==
  ASSUME TypeOK, RowsInv, pc = "markConfig"
  PROVE  RowsAfterMark(msg) = {[config |-> msg, status |-> "applied"]}
  <1>1. applied \in Nat /\ msg.version \in Nat /\ applied < msg.version
    BY CandidateIsNewer
  <1>2. ASSUME NEW r \in rows, r.config.version > msg.version, r.status = "applied" PROVE FALSE
    <2>1. r.config.version = applied
      BY <1>2 DEF RowsInv
    <2> QED
      BY <1>1, <1>2, <2>1
  <1> QED
    BY <1>2 DEF RowsAfterMark

\* Every step keeps one applied row, the oldest: only MarkConfigApplied moves it.
LEMMA RowsStep == TypeOK /\ RowsInv /\ [Next]_vars => RowsInv'
  <1> SUFFICES ASSUME TypeOK, RowsInv, [Next]_vars PROVE RowsInv'
    OBVIOUS
  <1>1. CASE UNCHANGED <<rows, applied>>
    BY <1>1 DEF RowsInv
  <1>2. ASSUME NEW c \in Config, ReceiveConfig(c) PROVE RowsInv'
    <2> DEFINE n == [config |-> c, status |-> "received"]
    <2>1. applied' = applied
      BY <1>2 DEF ReceiveConfig
    <2>2. CASE rows' = rows
      BY <2>1, <2>2 DEF RowsInv
    <2>3. CASE Insertable(c) /\ rows' = RowsWith(c)
      <3>1. rows' = rows \cup {n}
        BY <2>3 DEF RowsWith
      <3>2. \A r \in rows : r.config.version # n.config.version
        BY <2>3 DEF Insertable, Same
      <3>3. n.config.version > applied /\ n.status # "applied"
        BY <2>3 DEF Insertable
      <3>4. c.version \in Nat /\ applied \in Nat
        BY SyncAssumption DEF TypeOK, Version
      <3>5. n.config.version >= applied /\ n.config.version # applied
        BY <3>3, <3>4
      <3> HIDE DEF n
      <3> QED
        BY <2>1, <3>1, <3>2, <3>3, <3>5 DEF RowsInv
    <2> QED
      BY <1>2, <2>2, <2>3 DEF ReceiveConfig
  <1>3. CASE MarkConfigApplied
    <2> DEFINE m == [config |-> msg, status |-> "applied"]
    <2>1. rows' = {m} /\ applied' = msg.version
      BY <1>3, OneRowAfterMark DEF MarkConfigApplied
    <2>2. msg.version \in Nat
      BY <1>3, CandidateIsNewer DEF MarkConfigApplied
    <2> QED
      BY <2>1, <2>2 DEF RowsInv
  <1>4. CASE ResetAppliedRuntime
    <2> DEFINE back(r) == IF r.config.version = applied THEN [r EXCEPT !.status = "received"] ELSE r
    <2>1. rows' = {back(r) : r \in rows} /\ applied' = 0
      BY <1>4 DEF ResetAppliedRuntime
    <2>2. \A r \in rows : /\ back(r).config = r.config
                         /\ back(r).status # "applied"
                         /\ r.config.version \in Nat \ {0}
      BY SyncAssumption DEF TypeOK, RowsInv
    <2> HIDE DEF back
    <2> QED
      BY <2>1, <2>2 DEF RowsInv
  <1> QED
    BY <1>1, <1>2, <1>3, <1>4, WhoWritesRows

-----------------------------------------------------------------------------
(* The users and their secrets.                                            *)

\* Secrets of the same snapshot and key are the same; storing one never
\* disturbs another that is needed (secretstore/store.go:69).
LEMMA PutKeeps ==
  ASSUME NEW s \in Snapshot, NEW w \in s.users, NEW u \in Credential, TypeOK, PutSecret(u),
         SecretOf(w, s) \in secrets
  PROVE  SecretOf(w, s) \in secrets'
  <1>1. msg \in Snapshot /\ u \in msg.users
    BY DEF PutSecret, TypeOK
  <1>2. CASE w.sub = u.sub /\ w.inbound = u.inbound /\ s.rev = msg.rev
    <2>1. s = msg
      BY <1>1, <1>2, SyncAssumption
    <2>2. w = u
      BY <1>1, <1>2, <2>1, SyncAssumption
    <2> QED
      BY <2>1, <2>2 DEF PutSecret, SecretOf
  <1>3. CASE ~(w.sub = u.sub /\ w.inbound = u.inbound /\ s.rev = msg.rev)
    BY <1>3 DEF PutSecret, SecretOf
  <1> QED
    BY <1>2, <1>3

\* A users table that holds a snapshot is turned back into that snapshot
\* (Users and resolveStoredUsers, store.go:355, main.go:153).
LEMMA StoredIsSnapshot ==
  ASSUME NEW s \in Snapshot, Holds(s),
         \A x \in secrets : \E t \in Snapshot : \E u \in t.users : x = SecretOf(u, t)
  PROVE  Resolvable /\ StoredUsers = s.users
  <1>1. ASSUME NEW r \in userRows
        PROVE  \E u \in s.users : /\ r.sub = u.sub /\ r.inbound = u.inbound /\ r.ref = s.rev
                                 /\ SecretOf(u, s) \in secrets
    BY DEF Holds, RowsOf
  <1>2. Resolvable
    BY <1>1 DEF Resolvable, SecretOf
  <1>3. ASSUME NEW u \in s.users PROVE u \in StoredUsers
    <2>1. [sub |-> u.sub, inbound |-> u.inbound, ref |-> s.rev] \in userRows
      BY DEF Holds, RowsOf
    <2>2. SecretOf(u, s) \in secrets /\ u \in Credential
      BY UsersAreCredentials DEF Holds
    <2> QED
      BY <2>1, <2>2 DEF StoredUsers, SecretOf
  <1>4. ASSUME NEW u \in StoredUsers PROVE u \in s.users
    <2>1. PICK r \in userRows, x \in secrets :
             /\ r.sub = u.sub /\ r.inbound = u.inbound
             /\ x.sub = r.sub /\ x.inbound = r.inbound /\ x.ref = r.ref
             /\ x.value = u.value
      BY DEF StoredUsers
    <2>2. PICK w \in s.users : r.sub = w.sub /\ r.inbound = w.inbound /\ r.ref = s.rev
      BY <1>1
    <2>3. PICK t \in Snapshot : \E v \in t.users : x = SecretOf(v, t)
      OBVIOUS
    <2>4. PICK v \in t.users : x = SecretOf(v, t)
      BY <2>3
    <2>5. x.sub = v.sub /\ x.inbound = v.inbound /\ x.ref = t.rev /\ x.value = v.value
      BY <2>4 DEF SecretOf
    <2>6. t = s
      BY <2>1, <2>2, <2>5, SyncAssumption
    <2>7. v = w
      BY <2>1, <2>2, <2>5, <2>6, SyncAssumption
    <2>8. u \in Credential /\ w \in Credential
      BY UsersAreCredentials DEF StoredUsers
    <2>9. u = w
      BY <2>1, <2>2, <2>5, <2>7, <2>8, SyncAssumption
    <2> QED
      BY <2>9
  <1> QED
    BY <1>2, <1>3, <1>4

\* Every step keeps the stored snapshot whole and its secrets on disk.
LEMMA SecretsStep == TypeOK /\ SecretsInv /\ FreshInv /\ [Next]_vars => SecretsInv'
  <1> SUFFICES ASSUME TypeOK, SecretsInv, FreshInv, [Next]_vars PROVE SecretsInv'
    OBVIOUS
  <1>1. CASE /\ UNCHANGED <<userRows, userRev, secrets, acked>>
             /\ pc' # "putSecrets" \/ UNCHANGED <<pc, msg, left>>
    BY <1>1 DEF SecretsInv, Holds
  <1>2. CASE ApplyUsers
    BY <1>2 DEF ApplyUsers, SecretsInv, Holds, storeVars
  <1>3. CASE ResetAppliedRuntime
    BY <1>3 DEF ResetAppliedRuntime, SecretsInv, Holds
  <1>4. ASSUME NEW u \in Credential, PutSecret(u) PROVE SecretsInv'
    <2>1. msg \in Snapshot /\ u \in msg.users
      BY <1>4 DEF PutSecret, TypeOK
    <2>2. SecretOf(u, msg) \in secrets' /\ secrets' \subseteq secrets \cup {SecretOf(u, msg)}
      BY <1>4 DEF PutSecret, SecretOf
    <2>3. \A x \in secrets' : \E s \in Snapshot : \E w \in s.users : x = SecretOf(w, s)
      BY <2>1, <2>2 DEF SecretsInv
    <2>4. UNCHANGED <<pc, msg, userRows, userRev, acked>> /\ pc = "putSecrets" /\ left' = left \ {u}
      BY <1>4 DEF PutSecret
    <2>5. \A w \in msg.users : w \in left' \/ SecretOf(w, msg) \in secrets'
      BY <1>4, <2>1, <2>2, <2>4, PutKeeps DEF SecretsInv
    <2>6. ASSUME NEW s \in Snapshot, Holds(s) PROVE Holds(s)'
      BY <1>4, <2>4, <2>6, PutKeeps DEF Holds, RowsOf
    <2> QED
      BY <2>3, <2>4, <2>5, <2>6 DEF SecretsInv
  <1>5. CASE ReplaceUsers
    <2>1. msg \in Snapshot /\ msg.rev \in Nat \ {0} /\ acked \in Nat
      BY <1>5, SyncAssumption DEF ReplaceUsers, AllPut, TypeOK, Revision
    <2>2. UNCHANGED secrets /\ pc' = "idle"
      BY <1>5 DEF ReplaceUsers
    <2>3. AllowStale \/ acked' <= msg.rev
      BY <1>5, <2>1 DEF ReplaceUsers, AllPut, FreshInv
    <2>4. CASE msg.rev = userRev /\ UNCHANGED <<userRows, userRev>>
      <3>1. PICK s \in Snapshot : Holds(s) /\ s.rev = userRev
        BY <2>1, <2>4 DEF SecretsInv
      <3>2. s = msg
        BY <2>1, <2>4, <3>1, SyncAssumption
      <3>3. Holds(s)'
        BY <2>2, <2>4, <3>1 DEF Holds, RowsOf
      <3> QED
        BY <2>2, <2>3, <2>4, <3>1, <3>2, <3>3 DEF SecretsInv
    <2>5. CASE userRows' = UserRowsAfter(msg) /\ userRev' = msg.rev
      <3>1. PICK s \in Snapshot : s = msg
        BY <2>1
      <3>2. \A u \in s.users : SecretOf(u, s) \in secrets'
        BY <1>5, <2>2, <3>1 DEF ReplaceUsers, AllPut, SecretsInv
      <3>3. Holds(s)'
        BY <2>5, <3>1, <3>2 DEF Holds, RowsOf, UserRowsAfter
      <3> QED
        BY <2>2, <2>3, <2>5, <3>1, <3>3 DEF SecretsInv
    <2> QED
      BY <1>5, <2>4, <2>5 DEF ReplaceUsers
  <1> QED
    BY <1>1, <1>2, <1>3, <1>4, <1>5, WhoWritesUsers

\* What restoreRuntime resolves is one snapshot, and not an old one.
LEMMA StoredIsCurrent ==
  ASSUME SecretsInv
  PROVE  Resolvable /\ (AllowStale \/ Current(StoredUsers))
  <1>1. CASE userRows = {}
    BY <1>1 DEF Resolvable, StoredUsers, Current
  <1>2. ASSUME NEW s \in Snapshot, Holds(s), AllowStale \/ acked <= s.rev
        PROVE  Resolvable /\ (AllowStale \/ Current(StoredUsers))
    <2>1. Resolvable /\ StoredUsers = s.users
      BY <1>2, StoredIsSnapshot DEF SecretsInv
    <2> QED
      BY <1>2, <2>1 DEF Current
  <1> QED
    BY <1>1, <1>2 DEF SecretsInv

-----------------------------------------------------------------------------
(* The core.                                                               *)

\* A step that leaves the tables and the runtime alone.
LEMMA CoreFrame ==
  ASSUME CoreInv, UNCHANGED <<rows, applied, runtimeVars, pc, msg, report>>
  PROVE  CoreInv'
  BY DEF CoreInv, ConfirmedConfigDurable, AppliedRow, runtimeVars, AllAvailable

\* DelUsers never gives the core a credential.
LEMMA DelUsersShrinks ==
  ASSUME NEW stale, DelUsers(stale)
  PROVE  served' \subseteq served
  BY DEF DelUsers

\* Every step keeps the runtime in agreement with the handler and the tables.
LEMMA CoreStep == TypeOK /\ RowsInv /\ CoreInv /\ [Next]_vars => CoreInv'
  <1> SUFFICES ASSUME TypeOK, RowsInv, CoreInv, [Next]_vars PROVE CoreInv'
    OBVIOUS
  <1> USE DEF storeVars, runtimeVars, handlerVars, serverVars, NoReport
  <1>0. NoConfig \notin Config
    BY SyncAssumption
  <1>1. CASE RestoreNothing
    BY <1>1 DEF RestoreNothing, CoreInv, ConfirmedConfigDurable
  <1>2. CASE RestoreRuntime
    <2>1. PICK r \in AppliedRow : conf' = r.config /\ AllAvailable(r.config, StoredUsers)
      BY <1>2 DEF RestoreRuntime
    <2>2. conf'.version = applied' /\ applied' \in Nat /\ conf' \in Config
      BY <1>2, <2>1, SyncAssumption DEF RestoreRuntime, AppliedRow, TypeOK, Version
    <2> QED
      BY <1>0, <1>2, <2>1, <2>2 DEF RestoreRuntime, CoreInv, ConfirmedConfigDurable, AllAvailable
  <1>3. CASE RestoreUsersFails
    <2>1. conf' # NoConfig
      BY <1>0, <1>3 DEF RestoreUsersFails, AppliedRow, TypeOK
    <2> QED
      BY <1>3, <2>1 DEF RestoreUsersFails, CoreInv, ConfirmedConfigDurable, AllAvailable
  <1>4. CASE ResetAppliedRuntime
    <2>1. conf # NoConfig => 0 <= conf.version
      BY SyncAssumption DEF TypeOK
    <2> QED
      BY <1>4, <2>1 DEF ResetAppliedRuntime, CoreInv, ConfirmedConfigDurable, AllAvailable
  <1>5. CASE ApplyConfig
    <2>1. applied' <= conf'.version /\ conf' # NoConfig
      BY <1>0, <1>5, CandidateIsNewer DEF ApplyConfig
    <2> QED
      BY <1>5, <2>1 DEF ApplyConfig, CoreInv, ConfirmedConfigDurable, AllAvailable, AvailableIn
  <1>6. CASE MarkConfigApplied
    <2>1. rows' = {[config |-> msg, status |-> "applied"]} /\ applied' = msg.version
      BY <1>6, OneRowAfterMark DEF MarkConfigApplied
    <2>2. conf' = msg /\ msg.version \in Nat
      BY <1>6, CandidateIsNewer DEF MarkConfigApplied, CoreInv
    <2>3. ConfirmedConfigDurable'
      <3>1. [config |-> msg, status |-> "applied"] \in AppliedRow'
        BY <2>1 DEF AppliedRow
      <3>2. report'.config = msg
        BY <1>6 DEF MarkConfigApplied, Succeeded
      <3> QED
        BY <3>1, <3>2 DEF ConfirmedConfigDurable
    <2>4. applied' <= conf'.version
      BY <2>1, <2>2
    <2> QED
      BY <1>6, <2>3, <2>4 DEF MarkConfigApplied, CoreInv, AllAvailable
  <1>7. CASE ApplyUsers
    BY <1>7 DEF ApplyUsers, CoreInv, ConfirmedConfigDurable, AllAvailable
  <1>8. CASE ApplyUsersRefuses
    BY <1>8 DEF ApplyUsersRefuses, UsersRefused, CoreInv, ConfirmedConfigDurable, AllAvailable
  <1>9. CASE ReplaceUsers
    BY <1>9 DEF ReplaceUsers, AllPut, CoreInv, ConfirmedConfigDurable, AllAvailable
  <1>10. CASE ReplaceUsersStale
    BY <1>10 DEF ReplaceUsersStale, AllPut, CoreInv, ConfirmedConfigDurable, AllAvailable
  <1>11. ASSUME NEW u \in Credential, PutSecret(u) PROVE CoreInv'
    BY <1>11, CoreFrame DEF PutSecret
  <1>12. CASE RestoreCoreFails
    BY <1>12 DEF RestoreCoreFails, CoreInv, ConfirmedConfigDurable, AllAvailable
  <1>13. CASE ApplyConfigFails
    BY <1>13 DEF ApplyConfigFails, CoreInv, ConfirmedConfigDurable, AllAvailable
  <1>14. CASE MarkConfigFails \/ StoreUsersFails
    BY <1>14 DEF MarkConfigFails, StoreUsersFails, CoreInv, ConfirmedConfigDurable, AllAvailable
  <1>15. CASE ApplyUsersFails
    BY <1>15 DEF ApplyUsersFails, UsersRefused, CoreInv, ConfirmedConfigDurable, AllAvailable
  <1>16. CASE SessionEnds \/ SessionStarts
    BY <1>16, CoreFrame DEF SessionEnds, SessionStarts
  <1>17. CASE Crash \/ Panic
    BY <1>17 DEF Crash, Panic, Restart, CoreInv, ConfirmedConfigDurable, AllAvailable
  <1>18. ASSUME NEW c \in Config, ReceiveConfig(c) PROVE CoreInv'
    <2>1. CASE UNCHANGED <<rows, pc, msg>> /\ Succeeded(c)
               /\ \E r \in Same(c) : r.config = c /\ AlreadyApplied(r)
      <3>1. PICK r \in rows : r.config = c /\ r.status = "applied"
        BY <2>1 DEF Same, AlreadyApplied
      <3>2. r.config.version = applied
        BY <3>1 DEF RowsInv
      <3>3. ConfirmedConfigDurable'
        BY <1>18, <2>1, <3>1, <3>2 DEF ReceiveConfig, ConfirmedConfigDurable, Succeeded, AppliedRow
      <3> QED
        BY <1>18, <2>1, <3>3 DEF ReceiveConfig, CoreInv, AllAvailable
    <2>2. CASE pc' = "applyConfig" /\ report' = NoReport
      BY <1>18, <2>2 DEF ReceiveConfig, CoreInv, ConfirmedConfigDurable, AllAvailable
    <2> QED
      BY <1>18, <2>1, <2>2 DEF ReceiveConfig
  <1>19. ASSUME NEW c \in Config, WantConfig(c) PROVE CoreInv'
    BY <1>19, CoreFrame DEF WantConfig
  <1>20. ASSUME NEW s \in Snapshot, ReceiveUsers(s) PROVE CoreInv'
    <2>1. served' \subseteq served
      BY <1>20, DelUsersShrinks DEF ReceiveUsers
    <2> QED
      BY <1>20, <2>1 DEF ReceiveUsers, CoreInv, ConfirmedConfigDurable, AllAvailable
  <1>21. ASSUME NEW s \in Snapshot, WantUsers(s) PROVE CoreInv'
    BY <1>21, CoreFrame DEF WantUsers
  <1>22. ASSUME NEW v \in Version, ReceiveSecrets(v) PROVE CoreInv'
    BY <1>22, CoreFrame DEF ReceiveSecrets
  <1>23. ASSUME NEW u \in Credential, ReceiveDisconnect(u.sub) PROVE CoreInv'
    <2>1. served' \subseteq served
      BY <1>23, DelUsersShrinks DEF ReceiveDisconnect
    <2> QED
      BY <1>23, <2>1 DEF ReceiveDisconnect, CoreInv, ConfirmedConfigDurable, AllAvailable
  <1>24. CASE UNCHANGED vars
    BY <1>24, CoreFrame DEF vars
  <1> QED
    BY <1>1, <1>2, <1>3, <1>4, <1>5, <1>6, <1>7, <1>8, <1>9, <1>10, <1>11, <1>12, <1>13, <1>14,
       <1>15, <1>16, <1>17, <1>18, <1>19, <1>20, <1>21, <1>22, <1>23, <1>24
    DEF Next, StartStep, ConfigStep, UserStep, FailureStep

-----------------------------------------------------------------------------
(* What is revoked.                                                        *)

\* The steps that change r.users, the revision acknowledged or wanted, or
\* begin to handle a snapshot.
LEMMA WhoWritesFresh ==
  ASSUME [Next]_vars
  PROVE  \/ /\ users' \subseteq users /\ UNCHANGED <<acked, wantUsers>>
            /\ pc' \notin {"applyUsers", "putSecrets"} \/ UNCHANGED <<pc, msg>>
         \/ RestoreRuntime \/ ApplyUsers \/ ReplaceUsers
         \/ \E s \in Snapshot : ReceiveUsers(s) \/ WantUsers(s)
  <1> USE DEF runtimeVars, handlerVars, serverVars, vars
  <1>1. CASE StartStep \/ ConfigStep
    BY <1>1 DEF StartStep, ConfigStep, RestoreNothing, RestoreUsersFails, ResetAppliedRuntime,
                ApplyConfig, AvailableIn, MarkConfigApplied
  <1>2. CASE UserStep
    BY <1>2 DEF UserStep, ApplyUsersRefuses, UsersRefused, ReplaceUsersStale, PutSecret
  <1>3. CASE FailureStep \/ Panic
    BY <1>3 DEF FailureStep, Panic, RestoreCoreFails, ApplyConfigFails, MarkConfigFails,
                ApplyUsersFails, UsersRefused, StoreUsersFails, SessionEnds, Crash, Restart
  <1>4. ASSUME NEW c \in Config, ReceiveConfig(c)
        PROVE  /\ UNCHANGED <<users, acked, wantUsers>>
               /\ pc' \notin {"applyUsers", "putSecrets"}
    BY <1>4 DEF ReceiveConfig
  <1> QED
    BY <1>1, <1>2, <1>3, <1>4
    DEF Next, SessionStarts, WantConfig, ReceiveSecrets, ReceiveDisconnect

\* Without stale deliveries every step keeps what is served as new as what was
\* acknowledged.
LEMMA FreshStep ==
  TypeOK /\ SecretsInv /\ CoreInv /\ FreshInv /\ [Next]_vars => FreshInv'
  <1> SUFFICES ASSUME TypeOK, SecretsInv, CoreInv, FreshInv, [Next]_vars, ~AllowStale
               PROVE  FreshInv'
    BY DEF FreshInv
  <1>0. /\ acked \in Nat /\ wantUsers.rev \in Nat /\ \A s \in Snapshot : s.rev \in Nat
        /\ acked <= wantUsers.rev /\ Current(users)
        /\ pc \in {"applyUsers", "putSecrets"}
             => msg \in Snapshot /\ acked <= msg.rev /\ msg.rev <= wantUsers.rev
    BY SyncAssumption DEF TypeOK, Revision, FreshInv
  <1>1. CASE /\ users' \subseteq users /\ UNCHANGED <<acked, wantUsers>>
             /\ pc' \notin {"applyUsers", "putSecrets"} \/ UNCHANGED <<pc, msg>>
    BY <1>0, <1>1 DEF FreshInv, Current
  <1>2. CASE RestoreRuntime
    <2>1. UNCHANGED <<acked, wantUsers>> /\ users' = StoredUsers /\ pc' = "idle"
      BY <1>2 DEF RestoreRuntime, serverVars
    <2>2. Current(StoredUsers)
      BY StoredIsCurrent
    <2>3. Current(users)'
      BY <2>1, <2>2 DEF Current
    <2> QED
      BY <1>0, <2>1, <2>3 DEF FreshInv
  <1>3. CASE ApplyUsers
    <2>1. UNCHANGED <<acked, wantUsers, msg>> /\ users' = msg.users
      BY <1>3 DEF ApplyUsers, serverVars
    <2>2. Current(users)'
      BY <1>0, <1>3, <2>1 DEF ApplyUsers, Current
    <2> QED
      BY <1>0, <1>3, <2>1, <2>2 DEF FreshInv, ApplyUsers
  <1>4. CASE ReplaceUsers
    <2>1. msg \in Snapshot /\ acked <= msg.rev /\ msg.rev \in Nat /\ users = msg.users
      BY <1>0, <1>4 DEF ReplaceUsers, AllPut, CoreInv
    <2>2. acked' = msg.rev /\ UNCHANGED <<users, wantUsers>> /\ pc' = "idle"
      BY <1>0, <1>4, <2>1 DEF ReplaceUsers, serverVars, runtimeVars
    <2>3. Current(users)'
      BY <2>1, <2>2 DEF Current
    <2>4. acked' <= wantUsers'.rev
      BY <1>0, <1>4, <2>2 DEF ReplaceUsers, AllPut
    <2> QED
      BY <2>2, <2>3, <2>4 DEF FreshInv
  <1>5. ASSUME NEW s \in Snapshot, ReceiveUsers(s) PROVE FreshInv'
    BY <1>0, <1>5 DEF ReceiveUsers, serverVars, FreshInv, Current
  <1>6. ASSUME NEW s \in Snapshot, WantUsers(s) PROVE FreshInv'
    <2>1. acked <= s.rev /\ wantUsers.rev <= s.rev
      BY <1>0, <1>6 DEF WantUsers
    <2>2. UNCHANGED <<pc, msg, users, acked>> /\ wantUsers' = s
      BY <1>6 DEF WantUsers, handlerVars, runtimeVars
    <2> QED
      BY <1>0, <2>1, <2>2 DEF FreshInv, Current
  <1> QED
    BY <1>1, <1>2, <1>3, <1>4, <1>5, <1>6, WhoWritesFresh

-----------------------------------------------------------------------------
(* The theorems.                                                           *)

\* The invariant holds initially: the store is empty.
LEMMA InitIInv == Init => IInv
  <1> SUFFICES ASSUME Init PROVE IInv
    OBVIOUS
  <1> USE SyncAssumption DEF Init
  <1>1. TypeInv
    <2>1. want \in Config /\ wantUsers \in Snapshot
      OBVIOUS
    <2>2. faults \in 0..MaxFaults
      OBVIOUS
    <2> QED
      BY <2>1, <2>2 DEF TypeInv, TypeOK
  <1>2. RowsInv /\ SecretsInv
    BY DEF RowsInv, SecretsInv
  <1>3. CoreInv
    BY DEF CoreInv, ConfirmedConfigDurable, NoReport
  <1>4. FreshInv
    BY DEF FreshInv, Current
  <1> QED
    BY <1>1, <1>2, <1>3, <1>4 DEF IInv

\* Every step keeps the invariant.
LEMMA StepIInv == IInv /\ [Next]_vars => IInv'
  BY TypeStep, RowsStep, SecretsStep, CoreStep, FreshStep DEF IInv, TypeInv

\* The tables, the runtime and the handler stay in the relation of IInv
\* whatever fails or crashes between two of their steps (client.go:474-573).
THEOREM InvariantHolds == Spec => []IInv
  BY InitIInv, StepIInv, PTL DEF Spec

\* A handler's message is of its kind, and the row MarkConfigApplied updates
\* exists (store.go:321).
THEOREM TypeCorrect == Spec => []TypeOK
  <1>1. IInv => TypeOK
    BY DEF IInv, TypeInv
  <1> QED
    BY <1>1, InvariantHolds, PTL

\* AppliedConfig finds exactly the configuration meta names (store.go:283).
THEOREM OneAppliedRow == Spec => []AppliedRowUnique
  <1>1. IInv => AppliedRowUnique
    <2> SUFFICES ASSUME IInv, applied # 0 PROVE Cardinality(AppliedRow) = 1
      BY DEF IInv, RowsInv, AppliedRowUnique
    <2>1. PICK r \in rows : r.config.version = applied
      BY DEF IInv, RowsInv
    <2>2. AppliedRow = {r}
      BY <2>1 DEF IInv, RowsInv, AppliedRow
    <2> QED
      BY <2>2, FS_Singleton
  <1> QED
    BY <1>1, InvariantHolds, PTL

\* The users table is always one whole snapshot whose references resolve to
\* the values of that snapshot (resolveStoredUsers, main.go:153).
THEOREM UsersRestorable == Spec => []StoredUsersResolve
  <1>1. IInv => StoredUsersResolve
    <2> SUFFICES ASSUME IInv PROVE StoredUsersResolve
      OBVIOUS
    <2>1. CASE userRows = {}
      BY <2>1 DEF StoredUsersResolve, Resolvable
    <2>2. ASSUME NEW s \in Snapshot, Holds(s) PROVE StoredUsersResolve
      <3>1. Resolvable /\ StoredUsers = s.users
        BY <2>2, StoredIsSnapshot DEF IInv, SecretsInv
      <3> QED
        BY <2>2, <3>1 DEF StoredUsersResolve, Holds
    <2> QED
      BY <2>1, <2>2 DEF IInv, SecretsInv
  <1> QED
    BY <1>1, InvariantHolds, PTL

\* A configuration reported as succeeded is the durable one
\* (applyDesiredConfig, client.go:493-508).
THEOREM ConfirmedIsDurable == Spec => []ConfirmedConfigDurable
  <1>1. IInv => ConfirmedConfigDurable
    BY DEF IInv, CoreInv
  <1> QED
    BY <1>1, InvariantHolds, PTL

\* The core never falls behind what the agent reports (store.go:215).
THEOREM CoreNotBehind == Spec => []NeverBehindReported
  <1>1. IInv => NeverBehindReported
    BY DEF IInv, CoreInv, NeverBehindReported
  <1> QED
    BY <1>1, InvariantHolds, PTL

\* A running core accepts credentials for its own inbounds only
\* (usersAvailableInConfig, xray.go:45-102).
THEOREM UsersFit == Spec => []UsersFitConfig
  <1>1. IInv => UsersFitConfig
    BY DEF IInv, CoreInv, UsersFitConfig, AllAvailable
  <1> QED
    BY <1>1, InvariantHolds, PTL

\* When the server delivers no snapshot after a newer one, a credential that
\* an acknowledged snapshot revoked is never served again, across failed
\* rebuilds, crashes and resets (ReplaceUsers, store.go:38; main.go:122).
THEOREM RevokedForGood ==
  ASSUME AllowStale = FALSE
  PROVE  Spec => []RevokedStaysRevoked
  <1>1. IInv => RevokedStaysRevoked
    BY DEF IInv, CoreInv, FreshInv, Current, RevokedStaysRevoked
  <1> QED
    BY <1>1, InvariantHolds, PTL
=============================================================================
