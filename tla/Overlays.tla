------------------------------ MODULE Overlays ------------------------------
(***************************************************************************)
(* The two overlays of a profile under the one discipline of OverlayAdmin, *)
(* one of the two in a behaviour: `set_trust` over the configured          *)
(* allowlist, and `set_endpoints` over the configured endpoints.           *)
(***************************************************************************)
EXTENDS TrustOverlay, EndpointOverlay

CONSTANTS
    Peers, TrustConfigs, TrustAsks,
    Endpoints, EndpointConfigs, EndpointAsks,
    Absent, Torn, MaxUnwritten, Kinds

VARIABLES config, ran, up, live, kept, file, job, last, kind

vars == <<config, ran, up, live, kept, file, job, last, kind>>

TrustChanges ==
    {o \in [added : SUBSET Peers, revoked : SUBSET Peers] : IsFiniteSet(o.added) /\ IsFiniteSet(o.revoked)}
EndpointChanges ==
    [enabled : UNION {[S -> BOOLEAN] : S \in SUBSET Endpoints},
     default : Endpoints \cup {NoDefault, AsConfigured}]

\* Configurations are those that `ProfileConfig::validate` accepts.
ASSUME OverlayAssumption ==
    /\ MaxAllowed \in Nat /\ Local \in Peers
    /\ \A c \in TrustConfigs :
          c \subseteq Peers /\ IsFiniteSet(c) /\ Cardinality(Configured(c)) <= MaxAllowed
    /\ TrustAsks \subseteq [peer : Peers, allowed : BOOLEAN]
    /\ \A c \in EndpointConfigs :
          /\ c \in [enabled : UNION {[S -> BOOLEAN] : S \in SUBSET Endpoints},
                    default : Endpoints \cup {NoDefault}]
          /\ Valid(c)
    /\ EndpointAsks \subseteq [what : {"enabled"}, endpoint : Endpoints, to : BOOLEAN]
                    \cup [what : {"default"}, endpoint : {"any"}, to : Endpoints \cup {NoDefault}]
    /\ NoDefault \notin Endpoints /\ AsConfigured \notin Endpoints \cup {NoDefault}
    /\ Absent # Torn
    /\ \A contents \in {Absent, Torn} : contents \notin TrustChanges \cup EndpointChanges

Trust == INSTANCE OverlayAdmin WITH
    Configs <- TrustConfigs, Asks <- TrustAsks, ChecksFirst <- TRUE, Empty <- NoTrustChange,
    Readable <- TrustReadable, Normalise <- NormaliseTrust, Effective <- EffectiveTrust,
    Fits <- TrustFits, Move <- MoveTrust, Denies <- DeniesTrust, Publish <- PublishTrust,
    Refuses <- TrustRefuses, Holds <- TrustHolds

Endpoint == INSTANCE OverlayAdmin WITH
    Configs <- EndpointConfigs, Asks <- EndpointAsks, ChecksFirst <- FALSE, Empty <- NoEndpointChange,
    Readable <- EndpointsReadable, Normalise <- NormaliseEndpoints, Effective <- EffectiveEndpoints,
    Fits <- EndpointsFit, Move <- MoveEndpoints, Denies <- DeniesEndpoints, Publish <- Set,
    Refuses <- SetRefuses, Holds <- EndpointHolds

Init == kind \in Kinds /\ IF kind = "trust" THEN Trust!Init ELSE Endpoint!Init
Next ==
    /\ UNCHANGED kind
    /\ \/ kind = "trust" /\ Trust!Next
       \/ kind = "endpoints" /\ Endpoint!Next
Spec == Init /\ [][Next]_vars

Each(trust, endpoints) == IF kind = "trust" THEN trust ELSE endpoints

\* The overlay the driver keeps is the one the next start reads (`set_trust`,
\* `set_endpoints`), whatever write failed.
KeptIsOnFile == Each(Trust!KeptIsOnFile, Endpoint!KeptIsOnFile)

\* What an `ok` promises (`set_trust`, `fsync_dir`): the set is in force and is
\* what the next start loads, and one that was written survives a loss of power.
OkIsKept == Each(Trust!OkIsKept, Endpoint!OkIsKept)

\* No set, and no crash in the middle of one, makes the next start with the same
\* configuration fatal.
NextStartLoads == Each(Trust!NextStartLoads, Endpoint!NextStartLoads)

\* A set answered `ok` survives a crash (runtime.rs, `set_trust`).
OkSurvives == Each(Trust!OkSurvives, Endpoint!OkSurvives)
=============================================================================
