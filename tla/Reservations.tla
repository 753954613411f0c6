---------------------------- MODULE Reservations ----------------------------
(***************************************************************************)
(* Relay reservations: which relays are asked, what their listeners are    *)
(* and which circuit addresses are advertised (relay.rs of                 *)
(* crates/transport/runtime, relay_driver.rs of crates/transport/libp2p).  *)
(*                                                                         *)
(* The Swarm loop's state for relays is one record, `RelayState`, and      *)
(* every function of the driver maps a record to the record it leaves.     *)
(* The clock enters the code only as a difference, so the record keeps how *)
(* long a request has run and how long a backoff has left.                 *)
(***************************************************************************)
EXTENDS Naturals, FiniteSets, FiniteSetsExt, Sequences, SequencesExt, Maps

CONSTANTS
    Relays,            \* relays, as numbers: the order of their identities
    Circuits,          \* the circuit addresses a listener may report
    TargetPrivate,     \* `target_private_or_unknown`
    TargetPublic,      \* `target_public`
    MaxReservations,   \* `max_reservations`
    MaxPerRelay,       \* MAX_ADDRESSES_PER_RELAY
    MaxLearned,        \* MAX_LEARNED_RELAYS
    RetryMin,          \* `retry_min_ms`
    RetryMax,          \* `retry_max_ms`
    RequestHorizon,    \* REQUEST_HORIZON_MS
    Listeners          \* listener ids; one is used again when no trace of it is left

ASSUME ReservationsAssumption ==
    /\ IsFiniteSet(Relays) /\ Relays \subseteq Nat
    /\ {TargetPrivate, TargetPublic, RequestHorizon, MaxLearned} \subseteq Nat
    /\ {MaxReservations, MaxPerRelay, RetryMin} \subseteq Nat \ {0}
    /\ RetryMax \in Nat /\ RetryMin <= RetryMax
    /\ TargetPublic <= TargetPrivate /\ TargetPrivate <= MaxReservations

\* `retry_delay_ms`.
RetryDelay(attempts) == Min({RetryMin * 2^attempts, RetryMax})

\* Attempts beyond the first that waits RetryMax change nothing.
MaxAttempts == Min({a \in 0..RetryMax : RetryMin * 2^a >= RetryMax})
\* `ReservationState` with what each state carries: `age` of a request, `left`
\* of a backoff, `addresses` of a reservation; `lifted` is what is left of the
\* floor since the last lift.
Idle == [st |-> "Idle", age |-> 0, left |-> 0, attempts |-> 0, addresses |-> {}]
Requested(attempts) == [Idle EXCEPT !.st = "Requested", !.attempts = attempts]
Active(address) == [Idle EXCEPT !.st = "Active", !.addresses = {address}]
Backoff(left, attempts) == [Idle EXCEPT !.st = "Backoff", !.left = left, !.attempts = attempts]

Candidate(source) == [source |-> source, res |-> Idle, lifted |-> 0]

\* `RelayState` with its `ReservationManager`; `held` lists the active relays in
\* the order they became so (`since_ms`), `sockets` are the Swarm's relay
\* listeners with the relay of each and `external` its circuit addresses.
NewRelayState(static) ==
    [candidates |-> [r \in static |-> Candidate("Static")],
     direct     |-> "Unknown",
     held       |-> <<>>,
     listeners  |-> EmptyMap,
     byRelay    |-> EmptyMap,
     released   |-> {},
     sockets    |-> EmptyMap,
     advertised |-> {},
     external   |-> {}]

-----------------------------------------------------------------------------
(* ReservationManager. *)

In(rs, st) == {r \in DOMAIN rs.candidates : rs.candidates[r].res.st = st}
StateOf(rs, r) == rs.candidates[r].res
SetState(rs, r, res) == [rs EXCEPT !.candidates[r].res = res, !.held = IF res.st = "Active" THEN @ ELSE Remove(@, r)]

\* `target`.
Target(rs) ==
    Min({IF rs.direct = "VerifiedPublic" THEN TargetPublic ELSE TargetPrivate,
         MaxReservations, Cardinality(DOMAIN rs.candidates)})

Holding(rs) == Cardinality(In(rs, "Active") \cup In(rs, "Requested"))

\* `advertised` of the manager.
HeldAddresses(rs) == UNION {StateOf(rs, r).addresses : r \in In(rs, "Active")}

\* `askable`: static relays first, then by identity.
Askable(rs) ==
    LET ready == In(rs, "Idle") \cup {r \in In(rs, "Backoff") : StateOf(rs, r).left = 0}
        Rank(r) == <<IF rs.candidates[r].source = "Static" THEN 0 ELSE 1, r>>
        Before(a, b) == \/ Rank(a)[1] < Rank(b)[1]
                        \/ Rank(a)[1] = Rank(b)[1] /\ a <= b
    IN  SetToSortSeq(ready, LAMBDA a, b : a # b /\ Before(a, b))

Take(s, n) == SubSeq(s, 1, Min({n, Len(s)}))

\* Which relays `release_surplus` lets go: learned before static, newest first.
Surplus(rs) ==
    LET OfSource(source) == SelectSeq(Reverse(rs.held), LAMBDA r : rs.candidates[r].source = source)
        order == OfSource("Learned") \o OfSource("Static")
        excess == IF Len(order) > Target(rs) THEN Len(order) - Target(rs) ELSE 0
    IN  Take(order, excess)

\* `record_accepted`: an acceptance nobody asked for changes nothing.
RecordAccepted(rs, r, address) ==
    IF r \notin DOMAIN rs.candidates THEN rs
    ELSE LET res == StateOf(rs, r) IN
         CASE res.st = "Requested" ->
                [SetState(rs, r, Active(address)) EXCEPT !.held = Append(@, r)]
           [] res.st = "Active" /\ Cardinality(res.addresses \cup {address}) <= MaxPerRelay ->
                SetState(rs, r, [res EXCEPT !.addresses = @ \cup {address}])
           [] OTHER -> rs

\* `record_failed`: a reservation that was active starts the ladder over.
RecordFailed(rs, r, jitter) ==
    IF r \notin DOMAIN rs.candidates \/ StateOf(rs, r).st = "Idle" THEN rs
    ELSE LET attempts == IF StateOf(rs, r).st = "Active" THEN 0 ELSE StateOf(rs, r).attempts
             delay == RetryDelay(attempts)
         IN  SetState(rs, r, Backoff(delay + Min({jitter, delay}), Min({attempts + 1, MaxAttempts})))

-----------------------------------------------------------------------------
(* The driver. *)

\* Mutant of AbandonListener: the Swarm is not told.
AbandonSilently(rs, r) ==
    IF r \notin DOMAIN rs.byRelay THEN rs
    ELSE [rs EXCEPT !.byRelay = MapDrop(@, {r}), !.listeners = MapDrop(@, {rs.byRelay[r]})]

\* `abandon_listener`: the listener's later events are nobody's.
AbandonListener(rs, r) ==
    IF r \notin DOMAIN rs.byRelay THEN rs
    ELSE LET id == rs.byRelay[r] IN
         [rs EXCEPT !.byRelay = MapDrop(@, {r}), !.listeners = MapDrop(@, {id}),
                    !.released = IF id \in DOMAIN rs.sockets THEN @ \cup {id} ELSE @]

\* Mutant of Sync: addresses are added and never withdrawn.
SyncOnlyAdds(rs) ==
    [rs EXCEPT !.advertised = HeldAddresses(rs), !.external = @ \cup HeldAddresses(rs)]

\* `sync`: the Swarm's external addresses become those held.
Sync(rs) ==
    LET wanted == HeldAddresses(rs) IN
    [rs EXCEPT !.advertised = wanted,
               !.external = (@ \ (rs.advertised \ wanted)) \cup (wanted \ rs.advertised)]

\* Listener ids nothing remembers; the real ones are never used again.
FreeListeners(rs) == Listeners \ (DOMAIN rs.sockets \cup rs.released \cup DOMAIN rs.listeners)

\* `listen`: `luck` says for which relays the Swarm listens and, where it refuses or
\* no address will do, the jitter of the backoff.
Listen(rs, r, luck) ==
    IF ~luck[r].listens THEN RecordFailed(rs, r, luck[r].jitter)
    ELSE LET id == CHOOSE i \in FreeListeners(rs) : TRUE
         IN  [rs EXCEPT !.listeners = MapPut(@, id, r), !.byRelay = MapPut(@, r, id),
                        !.sockets = MapPut(@, id, r)]

\* `release`, after the manager made the relay idle.
Release(rs, r) == AbandonListener(SetState(rs, r, Idle), r)

\* `release_surplus` and `act` on what it returns.
ReleaseSurplus(rs) == FoldSeq(LAMBDA r, x : Release(x, r), rs, Surplus(rs))

\* `tick`, its first half, and `act`: ask as many as the target wants.
Ask(rs, luck) ==
    LET wanted == IF Target(rs) > Holding(rs) THEN Target(rs) - Holding(rs) ELSE 0
        one(x, r) == Listen(SetState(x, r, Requested(StateOf(x, r).attempts)), r, luck)
    IN  FoldLeft(one, rs, Take(Askable(rs), wanted))

\* `closed` after `abandon_listener`.
Abandon(rs, r, luck) == RecordFailed(AbandonListener(rs, r), r, luck[r].jitter)

\* `forget`: the candidate goes with its reservation.
Forget(rs, r) ==
    AbandonListener([rs EXCEPT !.candidates = MapDrop(@, {r}), !.held = Remove(@, r)], r)

Each(Op(_, _), rs, relays) == FoldLeft(Op, rs, SetToSeq(relays))

\* `forget_deauthorized`.
ForgetDeauthorized(rs, authorized, luck) ==
    LET revoked == DOMAIN rs.candidates \ authorized
        one(x, r) == IF x.candidates[r].source = "Learned" THEN Forget(x, r)
                     ELSE IF r \in DOMAIN x.byRelay THEN Abandon(x, r, luck) ELSE x
    IN  IF revoked = {} THEN rs ELSE Sync(Each(one, rs, revoked))

\* `abandon_past_horizon`: the requests it gives up.
PastHorizon(rs) == {r \in In(rs, "Requested") : StateOf(rs, r).age >= RequestHorizon}

\* `reconcile`.
ReconcileRelays(rs, authorized, luck) ==
    LET kept == ForgetDeauthorized(rs, authorized, luck)
        giveUp(x, r) == Abandon(x, r, luck)
        heard == Each(giveUp, kept, PastHorizon(kept))
    IN  Sync(ReleaseSurplus(Ask(heard, luck)))

\* `set_direct_inbound`.
SetDirectInbound(rs, verdict) ==
    IF rs.direct = verdict THEN rs
    ELSE Sync(ReleaseSurplus([rs EXCEPT !.direct = verdict]))

\* `handle_relay` on NewListenAddr.
NewListenAddr(rs, id, address) ==
    IF id \in rs.released \/ id \notin DOMAIN rs.listeners THEN rs
    ELSE Sync(RecordAccepted(rs, rs.listeners[id], address))

\* `handle_relay` on ListenerClosed.
ListenerClosed(rs, id, jitter) ==
    LET gone == [rs EXCEPT !.sockets = MapDrop(@, {id})] IN
    IF id \in rs.released THEN [gone EXCEPT !.released = @ \ {id}]
    ELSE LET r == rs.listeners[id]
             dropped == [gone EXCEPT !.listeners = MapDrop(@, {id}), !.byRelay = MapDrop(@, {r})]
         IN  Sync(RecordFailed(dropped, r, jitter))

\* `learn`, and the manager's `learn`.
Learn(rs, r, authorized) ==
    IF \/ r \notin authorized \/ r \in DOMAIN rs.candidates
       \/ Cardinality({q \in DOMAIN rs.candidates : rs.candidates[q].source = "Learned"}) >= MaxLearned
    THEN rs
    ELSE [rs EXCEPT !.candidates = MapPut(@, r, Candidate("Learned"))]

\* `network_added`: a backoff the gate does not hold ends now, once per floor.
NetworkAdded(rs, gated) ==
    [rs EXCEPT !.candidates = [r \in DOMAIN rs.candidates |->
        LET c == rs.candidates[r] IN
        IF c.res.st = "Backoff" /\ c.res.left > 0 /\ c.lifted = 0 /\ r \notin gated
        THEN [c EXCEPT !.res.left = 0, !.lifted = RetryMin]
        ELSE c]]

\* One unit of time.
AgeRelays(rs) ==
    LET less(n) == IF n > 0 THEN n - 1 ELSE 0 IN
    [rs EXCEPT !.candidates = [r \in DOMAIN rs.candidates |->
        LET c == rs.candidates[r] IN
        [c EXCEPT !.lifted = less(@), !.res.left = less(@),
                  !.res.age = IF c.res.st = "Requested" THEN Min({@ + 1, RequestHorizon}) ELSE 0]]]
=============================================================================
