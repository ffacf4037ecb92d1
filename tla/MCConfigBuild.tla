--------------------------- MODULE MCConfigBuild ---------------------------
(* ConfigBuild on inbounds of every protocol that validate, on each of them *)
(* with one field changed, and on pairs of inbounds.                        *)
EXTENDS ConfigBuild

CONSTANTS cert, key, unset

MCRef == {cert, key}

\* A short key, a long one, and bytes that are neither key nor text.
MCMaterial == {{"key16", "text"}, {"key32", "x25519", "text"}, {}}

Text(r, blanks) == [ref |-> r, padded |-> blanks]

TLSProfile     == [id |-> 1, type |-> "tls", fields |-> TRUE, refs |-> {Text(cert, FALSE)}]
RealityProfile == [TLSProfile EXCEPT !.id = 2, !.type = "reality"]
MCSecurity     == {TLSProfile, RealityProfile}

\* Lists of profiles that validation or the builder refuses, and one with a
\* profile no inbound uses, whose secret need not exist for the builder.
OtherSecurity == {{}, {[TLSProfile EXCEPT !.refs = {Text(cert, TRUE)}], RealityProfile},
                  {TLSProfile, [RealityProfile EXCEPT !.id = 1]},
                  {TLSProfile, [RealityProfile EXCEPT !.refs = {Text(unset, TRUE)}]},
                  {TLSProfile, [RealityProfile EXCEPT !.refs = {Text(key, TRUE)}]}}

Base == [id |-> 1, protocol |-> "trojan", payload |-> "trojan", fields |-> TRUE, enabled |-> TRUE,
         network |-> "tcp", listen |-> "any", port |-> 1,
         profile |-> 1, transport |-> "tcp", vision |-> FALSE,
         ref |-> Text(unset, FALSE), obfs |-> FALSE, method |-> "key32"]
As(p) == [Base EXCEPT !.protocol = p, !.payload = p]

VLESS   == [As("vless") EXCEPT !.profile = 2, !.vision = TRUE]
VMess   == [As("vmess") EXCEPT !.profile = 0]
SS2022  == [As("shadowsocks2022") EXCEPT !.profile = 0, !.ref = Text(key, FALSE)]
TUIC    == [As("tuic") EXCEPT !.network = "udp", !.transport = "quic"]
Hysteria2 == [As("hysteria2") EXCEPT !.network = "udp", !.transport = "quic",
                                     !.obfs = TRUE, !.ref = Text(key, FALSE)]
Bases == {Base, VLESS, VMess, SS2022, TUIC, Hysteria2}

\* One field of those that a protocol looks at is changed.
OneOff(i) ==
  {[i EXCEPT !.profile = n] : n \in 0..3}
  \cup {[i EXCEPT !.transport = t] : t \in {"tcp", "quic"}}
  \cup {[i EXCEPT !.payload = "none"], [i EXCEPT !.fields = FALSE]}
SecretOff(i) == {[i EXCEPT !.ref = Text(r, b)] : r \in {key, unset}, b \in BOOLEAN}

Singles == (UNION {OneOff(b) : b \in Bases}) \cup SecretOff(SS2022) \cup SecretOff(Hysteria2)
           \cup {[j EXCEPT !.obfs = FALSE] : j \in SecretOff(Hysteria2)}
           \cup {[SS2022 EXCEPT !.method = "key16"], [VLESS EXCEPT !.vision = FALSE],
                 [VLESS EXCEPT !.profile = 1, !.transport = "ws"], [TUIC EXCEPT !.network = "tcp"]}

MCConfig ==
  {[security |-> MCSecurity, inbounds |-> {i}] : i \in Singles}
  \cup {[security |-> s, inbounds |-> {i}] : s \in OtherSecurity, i \in Bases}
  \cup {[security |-> MCSecurity, inbounds |-> {Base, [i EXCEPT !.id = n, !.port = p, !.enabled = e]}] :
          i \in {SS2022}, n \in 1..2, p \in 1..2, e \in BOOLEAN}
=============================================================================
