--------------------------- MODULE DirectInbound ----------------------------
(***************************************************************************)
(* Admission of an inbound direct message: `admit_prefix` and              *)
(* `admit_structured` of crates/transport/runtime/src/direct_inbound.rs as *)
(* `handle_direct` (crates/transport/libp2p/src/runtime/direct.rs) runs    *)
(* them, on top of the endpoint leases and the dedup cache.                *)
(*                                                                         *)
(* A remote peer may send any request any number of times: that is what a  *)
(* retry after a lost answer looks like from here. One request is admitted *)
(* in one step of the Swarm task, so the in-flight reservation it takes is *)
(* always released within the step and refuses nothing.                    *)
(***************************************************************************)
EXTENDS EndpointLeases, DedupCache

CONSTANTS
    Ids,       \* message ids
    Prints,    \* content fingerprints
    TrustSets, \* the sets of trusted peers an operator may load
    MaxTime    \* bound on the monotonic clock

\* `DirectMessageV2` and the authenticated peer it came from. `dest` is the
\* endpoint asked for, or NoEndpoint for the receiver's default.
Request == [peer : Peers, dest : Endpoints \cup {NoEndpoint}, id : Ids, print : Prints]

\* The requests remote peers may send; the queues carry nothing else.
ASSUME DirectAssumption == Messages \subseteq Request /\ TrustSets \subseteq SUBSET Peers

VARIABLES
    trusted,   \* the profile's trusted peers
    draining,  \* shutdown has begun
    dedup,     \* the direct plane's DedupCache
    now,       \* monotonic clock
    admitted,  \* ghost: key -> its latest admission to a queue
    evicted    \* ghost: keys the cache lost to its bound since then

inboundVars == <<trusted, draining, dedup, now, admitted, evicted>>
directVars == <<leaseVars, inboundVars>>

KeyOf(request) == [peer |-> request.peer, dest |-> request.dest, id |-> request.id]

-----------------------------------------------------------------------------
(* The admission pipeline. *)

\* The endpoint a request resolves to.
TargetOf(request) == IF request.dest = NoEndpoint THEN default ELSE request.dest

\* `resolve_inbound` finds a route: there is a target, it is configured and
\* enabled, its own policy lets the peer in, and it is leased.
Resolves(request) ==
    LET target == TargetOf(request)
    IN  /\ target # NoEndpoint
        /\ target \in DOMAIN endpoints
        /\ endpoints[target].enabled
        /\ request.peer \in trusted \cap endpoints[target].inbound
        /\ target \in DOMAIN leases

\* `admit_prefix`: trust, then draining. The rate budget comes next and may
\* refuse anything; a request refused by the prefix touches nothing here.
PassesPrefix(request) == request.peer \in trusted /\ ~draining

\* Mutant of Refuse: a duplicate is answered as accepted and queued again.
RefuseRedelivers(request) ==
    LET live == Expire(dedup, now)
    IN  /\ PassesPrefix(request)
        /\ Verdict(live, KeyOf(request), request.print) = "DuplicateAccepted"
        /\ Resolves(request)
        /\ Deliver(TargetOf(request), request)
        /\ dedup' = AfterAdmit(dedup, KeyOf(request), request.print, now)
        /\ UNCHANGED <<trusted, draining, now, admitted, evicted>>

\* A duplicate, a conflict, no route or a full queue: only the cache's own
\* expiry and recency change.
Refuse(request) ==
    LET live == Expire(dedup, now)
    IN  /\ PassesPrefix(request)
        /\ \/ Verdict(live, KeyOf(request), request.print) # "Fresh"
           \/ ~Resolves(request)
           \/ ~HasRoom(TargetOf(request))
        /\ dedup' = AfterAdmit(dedup, KeyOf(request), request.print, now)
        /\ UNCHANGED <<leaseVars, trusted, draining, now, admitted, evicted>>

\* A fresh message is queued first and recorded second.
Accept(request) ==
    LET key  == KeyOf(request)
        live == Expire(dedup, now)
    IN  /\ PassesPrefix(request)
        /\ Verdict(live, key, request.print) = "Fresh"
        /\ Resolves(request)
        /\ HasRoom(TargetOf(request))
        /\ Deliver(TargetOf(request), request)
        /\ dedup' = RecordAccepted(dedup, key, TargetOf(request), request.print, now)
        /\ admitted' = MapPut(admitted, key,
               [route |-> TargetOf(request), print |-> request.print, at |-> now])
        /\ evicted' = (evicted \cup Overflow(live)) \ {key}
        /\ UNCHANGED <<trusted, draining, now>>

-----------------------------------------------------------------------------
(* Everything else that happens to a profile. *)

\* `adopt_trust`, from the SetTrust command.
AdoptTrust(peers) ==
    /\ trusted' = peers
    /\ UNCHANGED <<leaseVars, draining, dedup, now, admitted, evicted>>

\* The Drain command: `begin_shutdown`.
BeginDrain ==
    /\ ~draining
    /\ draining' = TRUE
    /\ UNCHANGED <<leaseVars, trusted, dedup, now, admitted, evicted>>

Tick ==
    /\ now < MaxTime
    /\ now' = now + 1
    /\ UNCHANGED <<leaseVars, trusted, draining, dedup, admitted, evicted>>

DirectInit ==
    /\ LeaseInit
    /\ trusted = {}
    /\ draining = FALSE
    /\ dedup = NewCache
    /\ now = 0
    /\ admitted = EmptyMap
    /\ evicted = {}

DirectNext ==
    \/ \E request \in Messages : Refuse(request)
    \/ \E request \in Messages : Accept(request)
    \/ LeaseCommand /\ UNCHANGED inboundVars
    \/ \E peers \in TrustSets : AdoptTrust(peers)
    \/ BeginDrain
    \/ Tick

DirectSpec == DirectInit /\ [][DirectNext]_directVars

-----------------------------------------------------------------------------
(* What admission promises. *)

\* A queue takes the same message a second time only after its lifetime has
\* passed or the full cache has dropped it. Duplicate requests, changed
\* defaults, new leases and reconfigurations in between do not matter.
AdmitOnce ==
    \A e \in DOMAIN queues \cap DOMAIN queues' :
        Len(queues'[e].events) > Len(queues[e].events) =>
            LET key == KeyOf(queues'[e].events[Len(queues'[e].events)].message)
            IN  \/ key \notin DOMAIN admitted
                \/ key \in evicted
                \/ now - admitted[key].at >= Ttl

\* A retry of a request puts nothing on a queue a second time while its
\* key is remembered (`admit_structured`, `DedupCache`).
AtMostOnce == [][AdmitOnce]_directVars

=============================================================================
