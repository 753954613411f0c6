---------------------------- MODULE TrustOverlay ----------------------------
(***************************************************************************)
(* What an administrator changed of the configured allowlist               *)
(* (trust_overlay.rs of crates/config/profile-config), and the policy it   *)
(* makes (crates/api/trust-api).  A configuration is its set of peers.     *)
(***************************************************************************)
EXTENDS Naturals, FiniteSets

CONSTANTS
    Local,      \* this profile's own identity
    MaxAllowed  \* PeerTrustPolicy::MAX_ALLOWED_PEERS

NoTrustChange == [added |-> {}, revoked |-> {}]

\* `read`: what is refused before it is normalised.
TrustReadable(o) ==
    /\ Cardinality(o.added) <= MaxAllowed /\ Cardinality(o.revoked) <= MaxAllowed
    /\ o.added \cap o.revoked = {}

\* The configured peers without this profile's own identity.
Configured(config) == config \ {Local}

\* `normalise`.
NormaliseTrust(o, config) ==
    [added |-> o.added \ Configured(config), revoked |-> o.revoked \cap Configured(config)]

\* `effective`, and its bound.
EffectiveTrust(o, config) == (Configured(config) \cup o.added) \ o.revoked
TrustFits(o, config) == Cardinality(EffectiveTrust(o, config)) <= MaxAllowed

\* `set`: one of four moves.
MoveTrust(o, config, ask) ==
    CASE ask.allowed  /\ ask.peer \in Configured(config) -> [o EXCEPT !.revoked = @ \ {ask.peer}]
      [] ask.allowed  /\ ask.peer \notin Configured(config) -> [o EXCEPT !.added = @ \cup {ask.peer}]
      [] ~ask.allowed /\ ask.peer \in Configured(config) -> [o EXCEPT !.revoked = @ \cup {ask.peer}]
      [] ~ask.allowed /\ ask.peer \notin Configured(config) -> [o EXCEPT !.added = @ \ {ask.peer}]

\* What `set_trust` refuses before it writes: the policy's `allow`, then the bound
\* of an overlay that is ahead of the policy.
DeniesTrust(live, o, config, ask) ==
    \/ /\ ask.allowed
       /\ ask.peer = Local \/ (ask.peer \notin live /\ Cardinality(live) >= MaxAllowed)
    \/ /\ MoveTrust(o, config, ask) # o
       /\ ~TrustFits(MoveTrust(o, config, ask), config)

\* `allow` and `revoke` of the policy, published.
PublishTrust(live, ask) == IF ask.allowed THEN live \cup {ask.peer} ELSE live \ {ask.peer}
TrustRefuses(live, ask) == FALSE

TrustHolds(ask, effective) == (ask.peer \in effective) = ask.allowed
=============================================================================
