---------------------------- MODULE ConfigBuild ----------------------------
(***************************************************************************)
(* A desired configuration from its validation to the listeners of the     *)
(* core: ValidateDesiredConfig, the secrets it refers to, the translation  *)
(* into the nodes of the inbound builder, the start of a core with them,   *)
(* the restoration of the previous one, the mark in the database, the      *)
(* check command and a restart.                                            *)
(*                                                                         *)
(* Versions, hashes and users are in RuntimeSync; here an inbound has its  *)
(* content.  Fields whose check looks at nothing but themselves            *)
(* (multipliers, names, bandwidths, congestion control) are one Boolean,   *)
(* "fields".  A reference is the text without the blanks around it and     *)
(* whether there are any.  The material of a secret is the set of forms it *)
(* can be read as: a server key of 16 or 32 bytes, raw or base64; a        *)
(* private key of REALITY; text that a JSON string can hold.               *)
(***************************************************************************)
EXTENDS Naturals

CONSTANTS Config,    \* configurations the server may send
          NoConfig,
          Ref,       \* references in the form Put accepts
          NoRef,     \* an empty reference
          Material   \* what may be put under a reference

Form == {"key16", "key32", "x25519", "text"}

ASSUME ConfigAssumption == /\ NoConfig \notin Config /\ NoRef \notin Ref
                           /\ Material \subseteq SUBSET Form

VARIABLES secrets,  \* durable secrets: reference -> material
          stored,   \* the configuration marked applied
          config,   \* r.config
          active,   \* r.active: no core, a core that is up, or a closed one
          running,  \* the configuration r.active was started with
          handler   \* "mark": ApplyConfig has returned, MarkConfigApplied follows

vars == <<secrets, stored, config, active, running, handler>>

Protocol == {"vless", "vmess", "trojan", "shadowsocks2022", "tuic", "hysteria2"}
Stream   == {"tcp", "ws", "grpc"}

-----------------------------------------------------------------------------
(* Validation.                                                             *)

UniqueIDs(S) == \A x, y \in S : x.id = y.id => x = y

\* validSecretRef trims before it matches.
ValidSecretRef(r) == r.ref # NoRef

ValidateSecurityProfile(p) ==
  /\ p.type \in {"tls", "reality"}
  /\ p.fields
  /\ \A r \in p.refs : ValidSecretRef(r)

HasProfile(c, i) == \E p \in c.security : p.id = i.profile
Profile(c, i)    == CHOOSE p \in c.security : p.id = i.profile
SecuredBy(c, i, types) == HasProfile(c, i) /\ Profile(c, i).type \in types

ValidateVLESS(c, i) ==
  /\ SecuredBy(c, i, {"tls", "reality"})
  /\ i.transport \in Stream
  /\ SecuredBy(c, i, {"reality"}) => i.vision
  /\ i.vision => i.transport = "tcp"

ValidateVMess(c, i) == /\ HasProfile(c, i) => SecuredBy(c, i, {"tls"})
                       /\ i.transport \in Stream

ValidateTrojan(c, i) == SecuredBy(c, i, {"tls"}) /\ i.transport \in Stream

ValidateSS2022(c, i) == /\ ~HasProfile(c, i) /\ i.profile = 0
                        /\ ValidSecretRef(i.ref)
                        /\ i.transport = "tcp"

ValidateQUIC(c, i) == /\ SecuredBy(c, i, {"tls"})
                      /\ i.network = "udp" /\ i.transport = "quic"

ValidateHysteria2(c, i) == ValidateQUIC(c, i) /\ (i.obfs => ValidSecretRef(i.ref))

ValidateInbound(c, i) ==
  /\ i.fields
  /\ i.payload = i.protocol
  /\ \/ i.protocol = "vless" /\ ValidateVLESS(c, i)
     \/ i.protocol = "vmess" /\ ValidateVMess(c, i)
     \/ i.protocol = "trojan" /\ ValidateTrojan(c, i)
     \/ i.protocol = "shadowsocks2022" /\ ValidateSS2022(c, i)
     \/ i.protocol = "tuic" /\ ValidateQUIC(c, i)
     \/ i.protocol = "hysteria2" /\ ValidateHysteria2(c, i)

\* What two inbounds of a configuration, enabled or not, may not share.
PortKey(i) == <<i.network, i.listen, i.port>>

ValidateDesiredConfig(c) ==
  /\ UniqueIDs(c.security) /\ \A p \in c.security : ValidateSecurityProfile(p)
  /\ UniqueIDs(c.inbounds)
  /\ \A i, j \in c.inbounds : i # j => PortKey(i) # PortKey(j)
  /\ \A i \in c.inbounds : ValidateInbound(c, i)

-----------------------------------------------------------------------------
(* Secrets.                                                                *)

\* Resolve matches without trimming.
Resolves(r) == ~r.padded /\ r.ref \in DOMAIN secrets

\* Mutant: the obfuscation password is forgotten.
RefsWithoutObfs(c) == (UNION {{r.ref : r \in p.refs} : p \in c.security})
                      \cup {i.ref.ref : i \in {k \in c.inbounds : k.payload = "shadowsocks2022"}}
\* Disabled inbounds and unused profiles are included, empty references are
\* not; references are trimmed.
ReferencedSecretRefs(c) ==
  ((UNION {{r.ref : r \in p.refs} : p \in c.security})
   \cup {i.ref.ref : i \in {k \in c.inbounds : k.payload \in {"shadowsocks2022", "hysteria2"}}})
  \ {NoRef}

\* checkStoredState, the check command.
CheckStoredState == stored # NoConfig => /\ ValidateDesiredConfig(stored)
                                         /\ ReferencedSecretRefs(stored) \subseteq DOMAIN secrets

-----------------------------------------------------------------------------
(* From a configuration to a core.                                         *)

Enabled(c) == {i \in c.inbounds : i.enabled}

\* The server key that is stored now has the length the method needs.
NormalizeSS2022Key(i) == i.method \in secrets[i.ref.ref]

ResolveProtocol(i) ==
  /\ i.protocol = "shadowsocks2022" => Resolves(i.ref) /\ NormalizeSS2022Key(i)
  /\ i.protocol = "hysteria2" /\ (i.ref.ref # NoRef \/ i.ref.padded) => Resolves(i.ref)

\* Mutant: an inbound whose profile is missing is built without security.
SkipMissingProfile(c, i) ==
  HasProfile(c, i) => \A r \in Profile(c, i).refs : Resolves(r)
ResolveSecurity(c, i) ==
  i.profile # 0 => HasProfile(c, i) /\ \A r \in Profile(c, i).refs : Resolves(r)

\* buildNodes succeeds; profile files are written under the runtime directory.
BuildNodes(c) == \A i \in Enabled(c) : ResolveProtocol(i) /\ ResolveSecurity(c, i)

\* The security of the listener the inbound builder makes of a node.
ListenerSecurity(c, i) == IF HasProfile(c, i) THEN Profile(c, i).type ELSE "none"

\* inboundbuilder.Build of every node: the transports it knows, and what
\* in.Build() parses of the secrets.  The obfuscation password is pasted into
\* a JSON string.  Certificates and their keys are read, and not parsed.
BuilderTransport == Stream \cup {"websocket", "httpupgrade", "splithttp", "xhttp"}
ObfsFits(i)       == i.protocol = "hysteria2" /\ i.obfs => "text" \in secrets[i.ref.ref]
RealityFits(c, i) == SecuredBy(c, i, {"reality"}) =>
                       \A r \in Profile(c, i).refs : "x25519" \in secrets[r.ref]

BuildInbounds(c) ==
  \A i \in Enabled(c) :
    /\ i.protocol \in {"vless", "vmess", "trojan"} => i.transport \in BuilderTransport
    /\ ObfsFits(i) /\ RealityFits(c, i)

\* What startCore needs: AddNode calls the builder again.
CanStart(c) == BuildNodes(c) /\ BuildInbounds(c)

\* The three checks of ApplyConfig before it touches the core.
Acceptable(c) == ValidateDesiredConfig(c) /\ CanStart(c)

-----------------------------------------------------------------------------
Init == /\ secrets = [r \in {} |-> {}] /\ stored = NoConfig
        /\ config = NoConfig /\ active = "none" /\ running = NoConfig
        /\ handler = "idle"

coreVars == <<config, active, running>>

CoreUp(c) == active' = "up" /\ running' = c
CoreGone  == active' = "none" /\ running' = NoConfig

\* applySecretEnvelope puts one secret after the other; what was there under
\* the same reference is replaced.
Put(r, m) ==
  /\ handler = "idle"
  /\ secrets' = [s \in DOMAIN secrets \cup {r} |-> IF s = r THEN m ELSE secrets[s]]
  /\ UNCHANGED <<stored, coreVars, handler>>

\* The file of a secret is lost.
LoseSecret(r) ==
  /\ r \in DOMAIN secrets
  /\ secrets' = [s \in DOMAIN secrets \ {r} |-> secrets[s]]
  /\ UNCHANGED <<stored, coreVars, handler>>

\* ApplyConfig refuses; the core has not been touched.
RejectConfig(c) ==
  /\ handler = "idle"
  /\ ~Acceptable(c)
  /\ UNCHANGED vars

\* Closing the previous core fails: ApplyConfig returns, and r.active is a core
\* without listeners.  Close of a closed core succeeds.
CloseFails(c) ==
  /\ handler = "idle"
  /\ Acceptable(c) /\ active = "up"
  /\ active' = "closed"
  /\ UNCHANGED <<secrets, stored, config, running, handler>>

\* Mutant: a configuration is built without being validated.
TrustConfig(c) ==
  /\ handler = "idle"
  /\ CanStart(c)
  /\ config' = c /\ CoreUp(c)
  /\ handler' = "mark"
  /\ UNCHANGED <<secrets, stored>>
\* The core is replaced.
AcceptConfig(c) ==
  /\ handler = "idle"
  /\ Acceptable(c)
  /\ config' = c /\ CoreUp(c)
  /\ handler' = "mark"
  /\ UNCHANGED <<secrets, stored>>

\* startCore of the previous nodes: the error is dropped, r.active is what starts.
RestorePrevious == \/ config # NoConfig /\ CanStart(config) /\ CoreUp(config)
                   \/ CoreGone

\* Mutant: r.config is assigned before the candidate starts.
ConfigFirst(c) ==
  /\ handler = "idle"
  /\ Acceptable(c)
  /\ RestorePrevious
  /\ config' = c
  /\ UNCHANGED <<secrets, stored, handler>>
\* The candidate does not start, for whatever reason: a socket that is taken,
\* a user the builder refuses, a certificate that does not parse.
CandidateFails(c) ==
  /\ handler = "idle"
  /\ Acceptable(c)
  /\ RestorePrevious
  /\ UNCHANGED <<secrets, stored, config, handler>>

\* MarkConfigApplied and the report, or its failure, which ends the session.
MarkConfigApplied ==
  /\ handler = "mark"
  /\ handler' = "idle"
  /\ stored' \in {config, stored}
  /\ UNCHANGED <<secrets, coreVars>>

\* ApplyUsers rebuilds whatever core r.active is from r.config.  It starts one
\* even if Close failed, and none is left if neither list of users starts.
ApplyUsers ==
  /\ handler = "idle"
  /\ active # "none" /\ config # NoConfig /\ BuildNodes(config)
  /\ \/ BuildInbounds(config) /\ CoreUp(config)
     \/ CoreGone
  /\ UNCHANGED <<secrets, stored, config, handler>>

\* A new process: restoreRuntime, and ResetAppliedRuntime when it fails.  When
\* that fails too the process exits and this happens again.
RestoreNothing == stored = NoConfig /\ config' = NoConfig /\ CoreGone /\ UNCHANGED stored

RestoreCore == /\ stored # NoConfig /\ Acceptable(stored)
               /\ config' = stored /\ CoreUp(stored)
               /\ UNCHANGED stored

RestoreFails == /\ stored # NoConfig
                /\ config' = NoConfig /\ CoreGone
                /\ stored' = NoConfig

\* The core is restored and its users are not.
RestoreUsersFails == /\ stored # NoConfig /\ Acceptable(stored)
                     /\ config' = stored
                     /\ CoreUp(stored) \/ CoreGone
                     /\ stored' = NoConfig

Restart == /\ RestoreNothing \/ RestoreCore \/ RestoreFails \/ RestoreUsersFails
           /\ handler' = "idle"
           /\ UNCHANGED secrets

Next == \/ \E r \in Ref : LoseSecret(r) \/ \E m \in Material : Put(r, m)
        \/ \E c \in Config : RejectConfig(c) \/ CloseFails(c) \/ AcceptConfig(c) \/ CandidateFails(c)
        \/ MarkConfigApplied \/ ApplyUsers \/ Restart

Spec == Init /\ [][Next]_vars

-----------------------------------------------------------------------------
\* What is marked applied and what the runtime keeps is a configuration that
\* validates, whichever of ApplyConfig, MarkConfigApplied and the restoration
\* failed (client.go:482-504, main.go:133).
TypeOK == /\ DOMAIN secrets \subseteq Ref /\ \A r \in DOMAIN secrets : secrets[r] \in Material
          /\ {stored, config, running} \subseteq Config \cup {NoConfig}
          /\ \A c \in {stored, config} \ {NoConfig} : ValidateDesiredConfig(c)
          /\ active \in {"none", "up", "closed"} /\ (active = "none" <=> running = NoConfig)
          /\ handler \in {"idle", "mark"} /\ (handler = "mark" => active # "none")

\* A core that is up was started from the configuration the runtime keeps,
\* from which users, traffic and access are attributed to inbounds and the core
\* is rebuilt: whichever candidate, Close, restoration or mark failed before,
\* and after any restart (xray.go:60-84, 127, main.go:136).
RunsKeptConfig == active = "up" => running = config

\* The material the enabled inbounds of c use is of the form they need.
MaterialFits(c) == \A i \in Enabled(c) :
                     /\ i.protocol = "shadowsocks2022" => NormalizeSS2022Key(i)
                     /\ ObfsFits(i) /\ RealityFits(c, i)

\* When the check command finds nothing wrong, the agent can build the stored
\* configuration after a restart: ReferencedSecretRefs names everything
\* panelNodeForInbound resolves, trimmed or not, whichever secret files were
\* lost since it was applied (main.go:95, protocol.go:193, xray.go:387).  The
\* check reads secrets and does not look at them, so a secret that was replaced
\* by one of another form escapes it.
CheckPredictsRestore ==
  stored # NoConfig /\ CheckStoredState /\ MaterialFits(stored) => CanStart(stored)

\* An inbound that names a security profile is never served without it, and
\* the protocols without encryption of their own are never served in the clear:
\* not even VMess, for which validation accepts a profile that does not exist
\* (protocol.go:343, xray.go:436).  VMess without a profile is accepted
\* (protocol.go:348), although the list of protocols in README.md:14 has it
\* over TLS only.
ServedAsSecured ==
  active = "up" => \A i \in Enabled(running) :
              /\ i.profile # 0 => SecuredBy(running, i, {"tls", "reality"})
              /\ ListenerSecurity(running, i) = "none" => i.protocol \in {"vmess", "shadowsocks2022"}
=============================================================================
