--------------------------- MODULE EndpointLeases ---------------------------
(***************************************************************************)
(* The endpoint registry, the endpoint queues and the lease notices of one *)
(* profile: crates/transport/runtime/src/endpoint_registry.rs and          *)
(* endpoint_queue.rs, driven by `DirectState` in                           *)
(* crates/transport/libp2p/src/runtime/direct.rs.                          *)
(*                                                                         *)
(* All of it runs on the Swarm task, one command at a time, so every       *)
(* command is one action.                                                  *)
(***************************************************************************)
EXTENDS Naturals, Sequences, FiniteSets, Maps

CONSTANTS
    Endpoints,     \* endpoint ids a configuration may name
    Sessions,      \* local session ids
    Peers,         \* remote peers an endpoint's inbound policy may name
    Kinds,         \* client kinds
    Messages,      \* what a queue carries
    Configurations,\* the endpoint configurations an operator may load
    DefaultBound,  \* DEFAULT_EVENT_QUEUE
    Batches,       \* how many items a drain or a take may ask for
    MaxEpochs,     \* bound: how many epochs are minted
    MaxOwed,       \* MAX_OWED_NOTICES
    NoEndpoint     \* "no default endpoint"

\* `RegisteredEndpoint`; an empty `kinds` allows every client kind, and
\* `inbound` is the set of peers the endpoint's own policy lets in.
RegisteredEndpoint ==
    [enabled : BOOLEAN, kinds : SUBSET Kinds, inbound : SUBSET Peers]

\* `DirectEndpoints`, as `from_profile` builds it from a profile that
\* validated: a positive bound, and a default that is configured and enabled.
IsConfiguration(config) ==
    /\ IsMap(config.endpoints, Endpoints, RegisteredEndpoint)
    /\ config.bound \in Nat \ {0}
    /\ \/ config.default = NoEndpoint
       \/ /\ config.default \in DOMAIN config.endpoints
          /\ config.endpoints[config.default].enabled

ASSUME LeaseAssumption ==
    /\ \A config \in Configurations : IsConfiguration(config)
    /\ DefaultBound \in Nat \ {0}
    /\ Batches \subseteq Nat
    /\ MaxOwed \in Nat \ {0}
    /\ NoEndpoint \notin Endpoints

VARIABLES
    endpoints,   \* configured endpoint -> [enabled, kinds, inbound]
    leases,      \* leased endpoint -> [owner, epoch, kind]
    default,     \* default_direct_endpoint, or NoEndpoint
    queues,      \* open endpoint -> [events, bound]
    queueBound,  \* the bound the next queue opens with
    notices,     \* session -> notices owed, oldest first
    minted       \* epochs minted so far

leaseVars == <<endpoints, leases, default, queues, queueBound, notices, minted>>

\* `ActiveLease`. Epochs are 128 random bits, taken to be fresh: they are
\* numbered in the order they are minted.
ActiveLease == [owner : Sessions, epoch : Nat, kind : Kinds]

\* A `DirectEvent`. `under` is a ghost: the epoch of the lease in force when
\* the event was queued.
DirectEvent == [message : Messages, under : Nat]

\* `LocalSessionEvent::EndpointLeaseChanged`.
LeaseNotice == [endpoint : Endpoints, epoch : Nat]

LeaseTypeOK ==
    /\ IsMap(endpoints, Endpoints, RegisteredEndpoint)
    /\ IsMap(leases, Endpoints, ActiveLease)
    /\ default \in Endpoints \cup {NoEndpoint}
    /\ IsMap(queues, Endpoints, [events : Seq(DirectEvent), bound : Nat])
    /\ queueBound \in Nat
    /\ notices \in [Sessions -> Seq(LeaseNotice)]
    /\ minted \in Nat

-----------------------------------------------------------------------------
(* The pieces the commands are made of. *)

\* Mutant of MayClaim: a session may hold several leases.
MayClaimAgain(endpoint, session, kind, epoch) ==
    /\ endpoint \in DOMAIN endpoints
    /\ endpoints[endpoint].enabled
    /\ endpoints[endpoint].kinds = {} \/ kind \in endpoints[endpoint].kinds
    /\ endpoint \notin DOMAIN leases

\* `EndpointRegistry::claim` grants: no early return is taken.
MayClaim(endpoint, session, kind, epoch) ==
    /\ endpoint \in DOMAIN endpoints
    /\ endpoints[endpoint].enabled
    /\ endpoints[endpoint].kinds = {} \/ kind \in endpoints[endpoint].kinds
    /\ endpoint \notin DOMAIN leases
    /\ \A held \in DOMAIN leases : leases[held].owner # session
    /\ \A held \in DOMAIN leases : leases[held].epoch # epoch

\* `EndpointQueues::open`: a fresh queue replaces whatever was there.
OpenQueue(endpoint) ==
    MapPut(queues, endpoint,
           [events |-> <<>>, bound |-> IF queueBound = 0 THEN 1 ELSE queueBound])

\* `release_session`: every endpoint the session holds.
HeldBy(session) == {e \in DOMAIN leases : leases[e].owner = session}

\* `owe_notice`: the holder, if there is one, is owed a notice; past the
\* ceiling the oldest notice makes way.
OweNotice(endpoint) ==
    IF endpoint \notin DOMAIN leases THEN notices
    ELSE LET lease == leases[endpoint]
             owed  == notices[lease.owner]
             kept  == IF Len(owed) >= MaxOwed THEN Tail(owed) ELSE owed
         IN  [notices EXCEPT ![lease.owner] =
                 Append(kept, [endpoint |-> endpoint, epoch |-> lease.epoch])]

\* `holds_lease`: the endpoint is leased under exactly this epoch.
HoldsLease(endpoint, epoch) ==
    endpoint \in DOMAIN leases /\ leases[endpoint].epoch = epoch

\* `EndpointQueues::push` succeeds.
HasRoom(endpoint) ==
    /\ endpoint \in DOMAIN queues
    /\ Len(queues[endpoint].events) < queues[endpoint].bound

\* `EndpointQueues::push`.
Push(endpoint, message) ==
    queues' = [queues EXCEPT ![endpoint].events =
                  Append(@, [message |-> message, under |-> leases[endpoint].epoch])]

-----------------------------------------------------------------------------
(* The commands. *)

\* `DirectState::new`: nothing is configured.
LeaseInit ==
    /\ endpoints = EmptyMap
    /\ leases = EmptyMap
    /\ default = NoEndpoint
    /\ queues = EmptyMap
    /\ queueBound = DefaultBound
    /\ notices = [s \in Sessions |-> <<>>]
    /\ minted = 0

\* `configure`: the registry and the queues are rebuilt, so every lease goes.
Configure(config) ==
    /\ endpoints' = config.endpoints
    /\ leases' = EmptyMap
    /\ default' = config.default
    /\ queues' = EmptyMap
    /\ queueBound' = config.bound
    /\ UNCHANGED <<notices, minted>>

\* `claim`: mint an epoch, take the lease, open its queue.
Claim(session, endpoint, kind) ==
    /\ minted < MaxEpochs
    /\ MayClaim(endpoint, session, kind, minted + 1)
    /\ leases' = MapPut(leases, endpoint,
                        [owner |-> session, epoch |-> minted + 1, kind |-> kind])
    /\ queues' = OpenQueue(endpoint)
    /\ minted' = minted + 1
    /\ UNCHANGED <<endpoints, default, queueBound, notices>>

\* `release`: a session that ends gives back its lease, its queue and the
\* notices it was owed.
Release(session) ==
    /\ leases' = MapDrop(leases, HeldBy(session))
    /\ queues' = MapDrop(queues, HeldBy(session))
    /\ notices' = [notices EXCEPT ![session] = <<>>]
    /\ UNCHANGED <<endpoints, default, queueBound, minted>>

\* Mutant of Revoke: the queue stays behind for the next holder.
RevokeKeepsQueue(endpoint) ==
    /\ notices' = OweNotice(endpoint)
    /\ leases' = MapDrop(leases, {endpoint})
    /\ UNCHANGED <<endpoints, queues, default, queueBound, minted>>

\* `revoke`: an operator takes an endpoint back.
Revoke(endpoint) ==
    /\ notices' = OweNotice(endpoint)
    /\ leases' = MapDrop(leases, {endpoint})
    /\ queues' = MapDrop(queues, {endpoint})
    /\ UNCHANGED <<endpoints, default, queueBound, minted>>

\* `set_enabled(endpoint, true)`.
Enable(endpoint) ==
    /\ endpoint \in DOMAIN endpoints
    /\ endpoints' = [endpoints EXCEPT ![endpoint].enabled = TRUE]
    /\ UNCHANGED <<leases, default, queues, queueBound, notices, minted>>

\* Mutant of Disable: the holder is not told.
DisableSilently(endpoint) ==
    /\ endpoint \in DOMAIN endpoints
    /\ default' = IF default = endpoint THEN NoEndpoint ELSE default
    /\ endpoints' = [endpoints EXCEPT ![endpoint].enabled = FALSE]
    /\ leases' = MapDrop(leases, {endpoint})
    /\ queues' = MapDrop(queues, {endpoint})
    /\ UNCHANGED <<queueBound, notices, minted>>

\* `set_enabled(endpoint, false)`: disabling revokes, and an endpoint that
\* is off cannot stay the default.
Disable(endpoint) ==
    /\ endpoint \in DOMAIN endpoints
    /\ notices' = OweNotice(endpoint)
    /\ default' = IF default = endpoint THEN NoEndpoint ELSE default
    /\ endpoints' = [endpoints EXCEPT ![endpoint].enabled = FALSE]
    /\ leases' = MapDrop(leases, {endpoint})
    /\ queues' = IF endpoint \in DOMAIN leases
                 THEN MapDrop(queues, {endpoint})
                 ELSE queues
    /\ UNCHANGED <<queueBound, minted>>

\* `set_default`: clear it, or name a configured and enabled endpoint.
SetDefault(endpoint) ==
    /\ \/ endpoint = NoEndpoint
       \/ endpoint \in DOMAIN endpoints /\ endpoints[endpoint].enabled
    /\ default' = endpoint
    /\ UNCHANGED <<endpoints, leases, queues, queueBound, notices, minted>>

\* `take_lease_notices`: the oldest `max` notices leave.
TakeLeaseNotices(session, max) ==
    /\ notices[session] # <<>>
    /\ LET owed == notices[session]
           take == IF Len(owed) < max THEN Len(owed) ELSE max
       IN  notices' = [notices EXCEPT ![session] = SubSeq(owed, take + 1, Len(owed))]
    /\ UNCHANGED <<endpoints, leases, default, queues, queueBound, minted>>

\* `drain_leased`: only the current epoch drains; a stale lease gets nothing.
DrainLeased(endpoint, epoch, max) ==
    /\ HoldsLease(endpoint, epoch)
    /\ endpoint \in DOMAIN queues
    /\ LET events == queues[endpoint].events
           take   == IF Len(events) < max THEN Len(events) ELSE max
       IN  queues' = [queues EXCEPT ![endpoint].events =
                         SubSeq(events, take + 1, Len(events))]
    /\ UNCHANGED <<endpoints, leases, default, queueBound, notices, minted>>

\* The tail of `admit_structured`: a resolved, leased endpoint queues it.
Deliver(endpoint, message) ==
    /\ endpoint \in DOMAIN leases
    /\ HasRoom(endpoint)
    /\ Push(endpoint, message)
    /\ UNCHANGED <<endpoints, leases, default, queueBound, notices, minted>>

LeaseCommand ==
    \/ \E config \in Configurations : Configure(config)
    \/ \E s \in Sessions, e \in Endpoints, k \in Kinds : Claim(s, e, k)
    \/ \E s \in Sessions : Release(s)
    \/ \E e \in Endpoints : Revoke(e)
    \/ \E e \in Endpoints : Enable(e)
    \/ \E e \in Endpoints : Disable(e)
    \/ \E e \in Endpoints \cup {NoEndpoint} : SetDefault(e)
    \/ \E s \in Sessions, max \in Batches : TakeLeaseNotices(s, max)
    \/ \E e \in Endpoints, epoch \in 1..minted, max \in Batches : DrainLeased(e, epoch, max)

LeaseNext ==
    \/ LeaseCommand
    \/ \E e \in Endpoints, m \in Messages : Deliver(e, m)

\* The promise of the lease component: every step is a command of
\* `DirectState`, or a delivery to a queue.
LeaseSpec == LeaseInit /\ [][LeaseNext]_leaseVars

-----------------------------------------------------------------------------
(* What the registry and the queues promise. *)

\* One session holds at most one lease, no two live leases share an epoch,
\* and every lease sits on an endpoint that is configured, enabled and open
\* to the holder's client kind (`claim`'s refusals, and the revocations that
\* have to follow every later change to the configuration).
LeaseExclusive ==
    \A e \in DOMAIN leases :
        /\ e \in DOMAIN endpoints
        /\ endpoints[e].enabled
        /\ endpoints[e].kinds = {} \/ leases[e].kind \in endpoints[e].kinds
        /\ leases[e].epoch \in 1..minted
        /\ \A f \in DOMAIN leases \ {e} :
               /\ leases[f].owner # leases[e].owner
               /\ leases[f].epoch # leases[e].epoch

\* A queue is open exactly while its endpoint is leased: no path out of a
\* lease leaves a queue behind, and none closes a live holder's queue.
QueueOpenIffLeased == DOMAIN queues = DOMAIN leases

\* Everything in a queue was admitted under the lease in force now: a new
\* holder never inherits mail meant for the holder before it, and no queue
\* exceeds the bound it was opened with.
NoInheritedMail ==
    \A e \in DOMAIN queues :
        /\ e \in DOMAIN leases
        /\ Len(queues[e].events) <= queues[e].bound
        /\ \A i \in 1..Len(queues[e].events) :
               queues[e].events[i].under = leases[e].epoch

\* A notice is owed only for a lease that is over; the notices of a session
\* are in the order its leases ended, each lease at most once; and no more
\* than the ceiling are kept.
NoticesAreTrue ==
    \A s \in Sessions :
        /\ Len(notices[s]) <= MaxOwed
        /\ \A i \in 1..Len(notices[s]) :
               /\ notices[s][i].epoch \in 1..minted
               /\ \A e \in DOMAIN leases : leases[e].epoch # notices[s][i].epoch
               /\ \A j \in 1..Len(notices[s]) :
                      i < j => notices[s][i].epoch < notices[s][j].epoch

\* The default endpoint, if there is one, is configured and enabled: a
\* message without a destination is never aimed at an endpoint that is off.
DefaultUsable ==
    default # NoEndpoint =>
        default \in DOMAIN endpoints /\ endpoints[default].enabled

\* A live lease ends in one of three ways: its session releases, which
\* changes no endpoint, the whole registry is replaced by a configuration,
\* or its holder is owed a notice naming it.
LeaseEnds ==
    \A e \in DOMAIN leases :
        (e \notin DOMAIN leases' \/ leases'[e] # leases[e]) =>
            LET owner == leases[e].owner
                owed  == notices'[owner]
            IN  \/ /\ DOMAIN leases' = {}
                   /\ \E config \in Configurations : endpoints' = config.endpoints
                \/ endpoints' = endpoints /\ owed = <<>> /\ \A f \in DOMAIN leases' : leases'[f].owner # owner
                \/ owed # <<>> /\ owed[Len(owed)] =
                       [endpoint |-> e, epoch |-> leases[e].epoch]

\* No step of any command ends a lease silently (`DirectState` owes a notice
\* for each revocation).
NoLeaseEndsUnannounced == [][LeaseEnds]_leaseVars
=============================================================================
