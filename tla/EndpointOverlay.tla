-------------------------- MODULE EndpointOverlay ---------------------------
(***************************************************************************)
(* What an administrator changed of the configured endpoints               *)
(* (endpoint_overlay.rs of crates/config/profile-config), and the          *)
(* substrate's own sets (direct.rs of crates/transport/libp2p).  A         *)
(* configuration, and what is in force, is which endpoints there are and   *)
(* are enabled, and the default.                                           *)
(***************************************************************************)
EXTENDS Naturals, FiniteSets, Maps

CONSTANTS
    NoDefault,     \* no default endpoint; `null` in the overlay
    AsConfigured,  \* the overlay has no `default`
    MaxAdvertised  \* `directory.max_advertised`; every endpoint is advertised

NoEndpointChange == [enabled |-> EmptyMap, default |-> AsConfigured]

\* `is_enabled`.
IsEnabled(enabled, config, e) ==
    IF e \in DOMAIN enabled THEN enabled[e] ELSE e \in DOMAIN config.enabled /\ config.enabled[e]

\* `normalise`: what says nothing leaves, then a default that is disabled.
NormaliseEndpoints(o, config) ==
    LET known == DOMAIN o.enabled \cap DOMAIN config.enabled
        enabled == [e \in {x \in known : o.enabled[x] # config.enabled[x]} |-> o.enabled[e]]
        on(e) == IsEnabled(enabled, config, e)
        stale == \/ o.default \notin DOMAIN config.enabled \cup {NoDefault, AsConfigured}
                 \/ o.default = config.default
        own == IF stale \/ (o.default \in DOMAIN config.enabled /\ ~on(o.default))
               THEN AsConfigured ELSE o.default
        cleared == own = AsConfigured /\ config.default # NoDefault /\ ~on(config.default)
    IN  [enabled |-> enabled, default |-> IF cleared THEN NoDefault ELSE own]

\* `effective`, which `apply` composes over the configuration.
EffectiveEndpoints(o, config) ==
    [enabled |-> [e \in DOMAIN config.enabled |-> IsEnabled(o.enabled, config, e)],
     default |-> IF o.default = AsConfigured THEN config.default ELSE o.default]

\* The rules of `ProfileConfig::validate` that read the enabled set.
Valid(config) ==
    /\ config.default = NoDefault \/ (config.default \in DOMAIN config.enabled /\ config.enabled[config.default])
    /\ Cardinality({e \in DOMAIN config.enabled : config.enabled[e]}) <= MaxAdvertised
EndpointsFit(o, config) == Valid(EffectiveEndpoints(o, config))
EndpointsReadable(o) == TRUE

\* `recording`: the overlay that makes `effective` of the configuration.
Recording(config, effective) ==
    LET differ == {e \in DOMAIN config.enabled : effective.enabled[e] # config.enabled[e]} IN
    [enabled |-> [e \in differ |-> effective.enabled[e]],
     default |-> IF effective.default = config.default THEN AsConfigured ELSE effective.default]

\* `set_enabled` and `set_default` on what is in force: disabling the default clears it.
Set(effective, ask) ==
    IF ask.what = "default" THEN [effective EXCEPT !.default = ask.to]
    ELSE [effective EXCEPT !.enabled[ask.endpoint] = ask.to,
                           !.default = IF ~ask.to /\ @ = ask.endpoint THEN NoDefault ELSE @]

\* What they refuse: an endpoint that is not configured, a default that is disabled.
SetRefuses(effective, ask) ==
    IF ask.what = "default"
    THEN ask.to # NoDefault /\ ~(ask.to \in DOMAIN effective.enabled /\ effective.enabled[ask.to])
    ELSE ask.endpoint \notin DOMAIN effective.enabled

MoveEndpoints(o, config, ask) == Recording(config, Set(EffectiveEndpoints(o, config), ask))

\* What `set_endpoints` refuses before it writes.
DeniesEndpoints(live, o, config, ask) ==
    \/ SetRefuses(EffectiveEndpoints(o, config), ask)
    \/ /\ MoveEndpoints(o, config, ask) # o
       /\ ~EndpointsFit(MoveEndpoints(o, config, ask), config)

EndpointHolds(ask, effective) ==
    IF ask.what = "default" THEN effective.default = ask.to
    ELSE ask.endpoint \in DOMAIN effective.enabled /\ effective.enabled[ask.endpoint] = ask.to
=============================================================================
