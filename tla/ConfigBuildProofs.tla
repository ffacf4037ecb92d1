------------------------- MODULE ConfigBuildProofs -------------------------
(***************************************************************************)
(* Proofs about ConfigBuild for every set of configurations, references    *)
(* and secrets: what validation, the check command, the builder and the    *)
(* steps of ApplyConfig, however they fail, establish for one another.     *)
(***************************************************************************)
EXTENDS ConfigBuild, TLAPS

\* What building a configuration has shown of it that no later loss or
\* replacement of a secret can undo: the references it resolves have no blanks
\* around them and the form Put accepts, profiles exist (panelNodeForInbound,
\* xray.go:387).
Sound(r) == ~r.padded /\ r.ref \in Ref

OnceBuilt(c) ==
  \A i \in Enabled(c) :
    /\ i.protocol = "shadowsocks2022" => Sound(i.ref)
    /\ i.protocol = "hysteria2" /\ (i.ref.ref # NoRef \/ i.ref.padded) => Sound(i.ref)
    /\ i.profile # 0 => HasProfile(c, i) /\ \A r \in Profile(c, i).refs : Sound(r)

\* The inductive invariant: what is marked applied and what the runtime keeps
\* was built once, each by itself, for a failing mark or restoration leaves them
\* different; and whatever core r.active is was started from r.config.
IInv == /\ TypeOK
        /\ \A c \in {stored, config} \ {NoConfig} : OnceBuilt(c)
        /\ running # NoConfig => running = config

-----------------------------------------------------------------------------
(* Facts about validation and translation.                                 *)

\* A configuration that builds has been built once (xray.go:372-474).
LEMMA BuiltOnce ==
  ASSUME NEW c, DOMAIN secrets \subseteq Ref, BuildNodes(c)
  PROVE  OnceBuilt(c)
  BY DEF OnceBuilt, BuildNodes, ResolveProtocol, ResolveSecurity, Resolves, Sound

\* An inbound's profile is one of the configuration's (protocol.go:185).
LEMMA ProfileOf ==
  ASSUME NEW c, NEW i, HasProfile(c, i)
  PROVE  Profile(c, i) \in c.security /\ Profile(c, i).id = i.profile
  BY DEF HasProfile, Profile

\* ReferencedSecretRefs names whatever the builder resolves, so a validated
\* configuration that was built once builds again as soon as those secrets are
\* there and of the form it needs (protocol.go:193 against xray.go:387-474).
LEMMA ReferencesSuffice ==
  ASSUME NEW c, NoRef \notin Ref, ValidateDesiredConfig(c), OnceBuilt(c),
         ReferencedSecretRefs(c) \subseteq DOMAIN secrets, MaterialFits(c)
  PROVE  BuildNodes(c)
  <1> SUFFICES ASSUME NEW i \in Enabled(c)
               PROVE  ResolveProtocol(i) /\ ResolveSecurity(c, i)
    BY DEF BuildNodes
  <1>1. i \in c.inbounds /\ i.payload = i.protocol
    BY DEF Enabled, ValidateDesiredConfig, ValidateInbound
  <1>2. ASSUME i.protocol \in {"shadowsocks2022", "hysteria2"}, Sound(i.ref)
        PROVE  Resolves(i.ref)
    <2>1. i.ref.ref \in ReferencedSecretRefs(c)
      BY <1>1, <1>2 DEF ReferencedSecretRefs, Sound
    <2> QED
      BY <1>2, <2>1 DEF Resolves, Sound
  <1>3. ResolveProtocol(i)
    BY <1>2 DEF ResolveProtocol, OnceBuilt, MaterialFits
  <1>4. ASSUME i.profile # 0 PROVE HasProfile(c, i) /\ \A r \in Profile(c, i).refs : Resolves(r)
    <2>1. HasProfile(c, i) /\ \A r \in Profile(c, i).refs : Sound(r)
      BY <1>4 DEF OnceBuilt
    <2>2. ASSUME NEW r \in Profile(c, i).refs PROVE Resolves(r)
      <3>1. Profile(c, i) \in c.security
        BY <2>1, ProfileOf
      <3>2. r.ref \in ReferencedSecretRefs(c)
        BY <2>1, <2>2, <3>1 DEF ReferencedSecretRefs, Sound
      <3> QED
        BY <2>1, <2>2, <3>2 DEF Resolves, Sound
    <2> QED
      BY <2>1, <2>2
  <1> QED
    BY <1>3, <1>4 DEF ResolveSecurity

\* A validated profile is TLS or REALITY, never nothing (protocol.go:228).
LEMMA ProfilesSecure ==
  ASSUME NEW c, NEW i, ValidateDesiredConfig(c), HasProfile(c, i)
  PROVE  Profile(c, i).type \in {"tls", "reality"}
  BY ProfileOf DEF ValidateDesiredConfig, ValidateSecurityProfile

\* Validation lets no protocol without encryption of its own go without a
\* profile (protocol.go:297-439).
LEMMA OnlyEncryptedGoBare ==
  ASSUME NEW c, NEW i \in c.inbounds, ValidateDesiredConfig(c), ~HasProfile(c, i)
  PROVE  i.protocol \in {"vmess", "shadowsocks2022"}
  <1>1. ValidateInbound(c, i)
    BY DEF ValidateDesiredConfig
  <1>2. ~SecuredBy(c, i, {"tls"}) /\ ~SecuredBy(c, i, {"tls", "reality"})
    BY DEF SecuredBy
  <1>3. ~ValidateVLESS(c, i) /\ ~ValidateTrojan(c, i) /\ ~ValidateQUIC(c, i)
        /\ ~ValidateHysteria2(c, i)
    BY <1>2 DEF ValidateVLESS, ValidateTrojan, ValidateQUIC, ValidateHysteria2
  <1> QED
    BY <1>1, <1>3 DEF ValidateInbound

\* Validation admits no transport the builder does not know, so what the
\* builder still looks at is material (protocol.go:441, build.go:141).
LEMMA BuilderSuffices ==
  ASSUME NEW c, ValidateDesiredConfig(c), MaterialFits(c)
  PROVE  BuildInbounds(c)
  <1> SUFFICES ASSUME NEW i \in Enabled(c), i.protocol \in {"vless", "vmess", "trojan"}
               PROVE  i.transport \in BuilderTransport
    BY DEF BuildInbounds, MaterialFits
  <1>1. ValidateInbound(c, i)
    BY DEF ValidateDesiredConfig, Enabled
  <1>2. ValidateVLESS(c, i) \/ ValidateVMess(c, i) \/ ValidateTrojan(c, i)
    BY <1>1 DEF ValidateInbound
  <1> QED
    BY <1>2 DEF ValidateVLESS, ValidateVMess, ValidateTrojan, BuilderTransport

-----------------------------------------------------------------------------
(* The invariant.                                                          *)

\* The invariant holds initially: nothing is stored.
LEMMA InitIInv == Init => IInv
  BY ConfigAssumption DEF Init, IInv, TypeOK

\* Every step keeps the invariant.
LEMMA StepIInv == IInv /\ [Next]_vars => IInv'
  <1> SUFFICES ASSUME IInv, [Next]_vars PROVE IInv'
    OBVIOUS
  <1> USE ConfigAssumption
  <1> USE DEF IInv, TypeOK, CoreUp, CoreGone, coreVars
  <1>1. ASSUME NEW r \in Ref, NEW m \in Material, Put(r, m) PROVE IInv'
    BY <1>1 DEF Put
  <1>2. ASSUME NEW r \in Ref, LoseSecret(r) PROVE IInv'
    BY <1>2 DEF LoseSecret
  <1>3. ASSUME NEW c \in Config, RejectConfig(c) PROVE IInv'
    BY <1>3 DEF RejectConfig, vars
  <1>4. ASSUME NEW c \in Config, CloseFails(c) PROVE IInv'
    BY <1>4 DEF CloseFails
  <1>5. ASSUME NEW c \in Config, AcceptConfig(c) PROVE IInv'
    <2>1. ValidateDesiredConfig(c) /\ OnceBuilt(c)
      BY <1>5, BuiltOnce DEF AcceptConfig, Acceptable, CanStart
    <2> QED
      BY <1>5, <2>1 DEF AcceptConfig
  <1>6. ASSUME NEW c \in Config, CandidateFails(c) PROVE IInv'
    BY <1>6 DEF CandidateFails, RestorePrevious
  <1>7. CASE MarkConfigApplied
    BY <1>7 DEF MarkConfigApplied
  <1>8. CASE ApplyUsers
    BY <1>8 DEF ApplyUsers
  <1>9. CASE Restart
    <2>1. CASE RestoreNothing
      BY <1>9, <2>1 DEF Restart, RestoreNothing
    <2>2. CASE RestoreCore
      BY <1>9, <2>2 DEF Restart, RestoreCore
    <2>3. CASE RestoreFails
      BY <1>9, <2>3 DEF Restart, RestoreFails
    <2>4. CASE RestoreUsersFails
      BY <1>9, <2>4 DEF Restart, RestoreUsersFails
    <2> QED
      BY <1>9, <2>1, <2>2, <2>3, <2>4 DEF Restart
  <1>10. CASE UNCHANGED vars
    BY <1>10 DEF vars
  <1> QED
    BY <1>1, <1>2, <1>3, <1>4, <1>5, <1>6, <1>7, <1>8, <1>9, <1>10 DEF Next

\* What is marked applied and what the runtime keeps was validated and built
\* once, and r.active was started from the latter (ApplyConfig and
\* MarkConfigApplied, xray.go:45, client.go:495-504).
THEOREM InvariantHolds == Spec => []IInv
  BY InitIInv, StepIInv, PTL DEF Spec

\* What is marked applied and what the runtime keeps validates.
THEOREM TypeCorrect == Spec => []TypeOK
  <1>1. IInv => TypeOK
    BY DEF IInv
  <1> QED
    BY <1>1, InvariantHolds, PTL

\* No failing candidate, Close, restoration, mark or restart leaves a core that
\* runs another configuration than the one the runtime keeps (xray.go:60-84).
THEOREM CoreRunsKeptConfig == Spec => []RunsKeptConfig
  <1>1. IInv => RunsKeptConfig
    BY DEF IInv, TypeOK, RunsKeptConfig
  <1> QED
    BY <1>1, InvariantHolds, PTL

\* The check command misses no reason for which the stored configuration cannot
\* be built after a restart, but the form of a replaced secret
\* (checkStoredState, main.go:95).
THEOREM CheckIsSound == Spec => []CheckPredictsRestore
  <1>1. IInv => CheckPredictsRestore
    <2> SUFFICES ASSUME IInv, stored # NoConfig, CheckStoredState, MaterialFits(stored)
                 PROVE  CanStart(stored)
      BY DEF CheckPredictsRestore
    <2>1. ValidateDesiredConfig(stored) /\ OnceBuilt(stored)
      BY DEF IInv, TypeOK
    <2>2. BuildNodes(stored)
      BY <2>1, ReferencesSuffice, ConfigAssumption DEF CheckStoredState
    <2>3. BuildInbounds(stored)
      BY <2>1, BuilderSuffices
    <2> QED
      BY <2>2, <2>3 DEF CanStart
  <1> QED
    BY <1>1, InvariantHolds, PTL

\* Nothing is served without the profile it names, and nothing in the clear
\* that has no encryption of its own (protocol.go:297, xray.go:435).
THEOREM ServesSecured == Spec => []ServedAsSecured
  <1>1. IInv => ServedAsSecured
    <2> SUFFICES ASSUME IInv, active = "up", NEW i \in Enabled(running)
                 PROVE  /\ i.profile # 0 => SecuredBy(running, i, {"tls", "reality"})
                        /\ ListenerSecurity(running, i) = "none"
                             => i.protocol \in {"vmess", "shadowsocks2022"}
      BY DEF ServedAsSecured
    <2>1. ValidateDesiredConfig(running) /\ OnceBuilt(running) /\ i \in running.inbounds
      BY DEF IInv, TypeOK, Enabled
    <2>2. i.profile # 0 => SecuredBy(running, i, {"tls", "reality"})
      BY <2>1, ProfilesSecure DEF OnceBuilt, SecuredBy
    <2>3. ListenerSecurity(running, i) = "none" => ~HasProfile(running, i)
      BY <2>1, ProfilesSecure DEF ListenerSecurity
    <2> QED
      BY <2>1, <2>2, <2>3, OnlyEncryptedGoBare
  <1> QED
    BY <1>1, InvariantHolds, PTL
=============================================================================
