------------------------------ MODULE Retries -------------------------------
(***************************************************************************)
(* The reconnect schedule of `ConnectionManager`                           *)
(* (crates/transport/runtime/src/connection_manager.rs) and its claims, as *)
(* the Swarm loop's retry timer and dial settlements drive it              *)
(* (crates/transport/libp2p/src/runtime/dialing.rs and mod.rs).            *)
(*                                                                         *)
(* The loop is one task, so one action is one turn of its `select!`.       *)
(* A peer has at most two direct and one circuit address, and every        *)
(* circuit goes through the same relay. What the policy remembers of an    *)
(* address (scores, backoff, quarantine; see DialAdmission) appears as a   *)
(* choice: which candidates are offered, and which attempts are refused.   *)
(***************************************************************************)
EXTENDS Naturals, FiniteSets, SequencesExt, Maps

CONSTANTS
    Peers,         \* remote peers, other than the relay
    Reachable,     \* Peers -> the routes by which a peer may be known
    MaxDials,      \* `max_pending_dials`
    MaxEntries,    \* `max_retry_entries`
    Base, Ceiling, \* RETRY_BASE_MS, RETRY_CEILING_MS
    MaxShift,      \* how often the delay doubles at most (8 in the code)
    TrustSets,     \* the sets of authorized peers an operator may load
    MaxTime        \* bound on the clock

Routes == {"direct", "other", "circuit"}

ASSUME RetriesAssumption ==
    /\ IsFiniteSet(Peers)
    /\ Reachable \in [Peers -> SUBSET Routes]
    /\ TrustSets \subseteq SUBSET Peers
    /\ MaxDials \in Nat \ {0} /\ MaxEntries \in Nat \ {0}
    /\ {Base, Ceiling, MaxShift, MaxTime} \subseteq Nat

Slots == 1..MaxDials

\* `Retry`; attempts beyond MaxShift change nothing.
Retry == [due : Nat, attempts : 0..MaxShift, claimed : BOOLEAN, waits : BOOLEAN]

VARIABLES
    now,      \* the loop's clock
    trusted,  \* the peers `classify` does not call unauthorized
    draining, \* `is_draining`
    relay,    \* whether there is a direct connection to the relay
    mgr       \* the address book, `retries` and `in_flight`

retryVars == <<now, trusted, draining, relay, mgr>>

-----------------------------------------------------------------------------
(* The schedule, on a value `m` of mgr. *)

DialsPeer(m, p) == \E d \in DOMAIN m.dials : m.dials[d].peer = p

Claimed(m, p) == p \in DOMAIN m.retries /\ m.retries[p].claimed

Attempts(m, p) == IF p \in DOMAIN m.retries THEN m.retries[p].attempts ELSE 0

Least(a, b) == IF a <= b THEN a ELSE b

\* `retry_backoff_ms`.
RetryBackoff(attempts) == Least(Base * 2 ^ Least(attempts, MaxShift), Ceiling)

\* The entry `schedule_retry` writes. Whatever lies beyond the end of time
\* is due never.
NextRetry(m, p, claimed) ==
    [due |-> Least(now + RetryBackoff(Attempts(m, p)), MaxTime + 1),
     attempts |-> Least(Attempts(m, p) + 1, MaxShift), claimed |-> claimed, waits |-> FALSE]

\* The entry furthest in the future: `max_by_key` over `retries`.
Furthest(m) ==
    CHOOSE p \in DOMAIN m.retries : \A q \in DOMAIN m.retries : m.retries[q].due <= m.retries[p].due

\* Mutant of ScheduleRetry: a claim is always given back.
ScheduleUnclaims(m, p, claimed) ==
    LET full == p \notin DOMAIN m.retries /\ Cardinality(DOMAIN m.retries) >= MaxEntries
        room == IF full THEN MapDrop(m.retries, {Furthest(m)}) ELSE m.retries
    IN  [m EXCEPT !.retries = MapPut(room, p, NextRetry(m, p, FALSE))]

\* `schedule_retry`: a full table loses its furthest entry, claimed or not.
ScheduleRetry(m, p, claimed) ==
    LET full == p \notin DOMAIN m.retries /\ Cardinality(DOMAIN m.retries) >= MaxEntries
        room == IF full THEN MapDrop(m.retries, {Furthest(m)}) ELSE m.retries
    IN  [m EXCEPT !.retries = MapPut(room, p, NextRetry(m, p, claimed))]

\* `clear_retry_claim`; `release_retry_claim` and `reclaim_retry`.
ClearRetry(m, p) == [m EXCEPT !.retries = MapDrop(@, {p})]
SetClaim(m, p, claimed) ==
    IF p \in DOMAIN m.retries THEN [m EXCEPT !.retries[p].claimed = claimed] ELSE m

\* A claim that is not the ticket's survives its failure.
HeldByAnother(m, p, owns) == ~owns /\ Claimed(m, p)

\* An attempted address is learnt, while the peer is authorized.
LearnBack(m, p, route) ==
    IF p \in trusted THEN [m EXCEPT !.book[p] = @ \cup {route}] ELSE m

\* `record_success`, with the route learnt again by
\* `settle_established_outbound`.
RecordSuccess(m, p, route) == LearnBack(ClearRetry(m, p), p, route)

\* `record_failure`.
RecordFailure(m, p, route, owns) ==
    ScheduleRetry(LearnBack(m, p, route), p, HeldByAnother(m, p, owns))

\* `record_relay_hop_unreached`: due at once if the relay came up, and
\* otherwise as soon as it does.
RecordRelayHopUnreached(m, p, owns, cameUp) ==
    LET n == ScheduleRetry(LearnBack(m, p, "circuit"), p, HeldByAnother(m, p, owns))
    IN  IF cameUp THEN [n EXCEPT !.retries[p].due = now]
                  ELSE [n EXCEPT !.retries[p].waits = TRUE]

\* `record_permanent_failure`: the address leaves the book, unless
\* `hand_over` finds no room to keep its live penalty.
RecordPermanentFailure(m, p, route, owns, handed) ==
    LET n == IF handed THEN [m EXCEPT !.book[p] = @ \ {route}] ELSE m
    IN  IF owns THEN SetClaim(n, p, FALSE) ELSE n

\* Mutant of RecordIdentityMismatch: the claim is kept.
RecordMismatchKeepsClaim(m, p, owns) == m

\* `record_identity_mismatch`, as far as the schedule goes.
RecordIdentityMismatch(m, p, owns) == IF owns THEN SetClaim(m, p, FALSE) ELSE m

\* `record_authorization_withdrawn` and `record_locally_refused`.
RecordWithdrawn(m, p, owns) == IF owns THEN ClearRetry(m, p) ELSE m

-----------------------------------------------------------------------------
(* Starting dials. *)

FreeSlots(m) == Slots \ DOMAIN m.dials
FreeSlot(m) == CHOOSE d \in FreeSlots(m) : \A e \in FreeSlots(m) : d <= e

\* What may come of one attempt: the gate decides, then the Swarm.
Outcomes(m, p) ==
    {"refused"} \cup
    (IF p \in trusted /\ ~draining /\ FreeSlots(m) # {}
     THEN {"ticket", "transient", "permanent", "kept"} ELSE {})

\* `attempt_dial`. A failure the Swarm reports at once is settled here.
AttemptDial(m, p, route, owns, outcome) ==
    CASE outcome = "ticket" ->
           [m EXCEPT !.dials = MapPut(@, FreeSlot(m), [peer |-> p, route |-> route,
                                                       owns |-> owns, cameUp |-> FALSE])]
      [] outcome = "transient" -> RecordFailure(m, p, route, owns)
      [] outcome \in {"permanent", "kept"} ->
           RecordPermanentFailure(m, p, route, owns, outcome = "permanent")
      [] OTHER -> m

\* The ways to go through candidates in some order until one is ticketed.
Walks(m, p, candidates) ==
    {w \in UNION {[1..n -> candidates \X Outcomes(m, p)] : n \in 1..Cardinality(candidates)} :
        /\ \A i, j \in DOMAIN w : w[i][1] = w[j][1] => i = j
        /\ \A i \in DOMAIN w : w[i][2] = "ticket" => i = Len(w)
        /\ Last(w)[2] = "ticket" \/ Len(w) = Cardinality(candidates)}

Ticketed(w) == Last(w)[2] = "ticket"

\* A scheduled dial owns the claim, except that a circuit is dialled under
\* an origin of its own (`book_origin`).
Walk(m, p, w, scheduled) ==
    FoldLeft(LAMBDA n, step : AttemptDial(n, p, step[1], scheduled /\ step[1] # "circuit", step[2]),
             m, w)

\* Any other dial of a known peer: `dial_peer` or a deferred circuit.
DialPeer(p) ==
    /\ \E candidates \in SUBSET mgr.book[p] \ {{}} : \E w \in Walks(mgr, p, candidates) :
          mgr' = Walk(mgr, p, w, FALSE)
    /\ UNCHANGED <<now, trusted, draining, relay>>

\* `take_due_retries`, for the peer due first.
Due(p) ==
    /\ p \in DOMAIN mgr.retries /\ ~mgr.retries[p].claimed /\ now >= mgr.retries[p].due
    /\ \A q \in DOMAIN mgr.retries :
          ~mgr.retries[q].claimed => mgr.retries[p].due <= mgr.retries[q].due

\* Mutant of AfterWalk: a ticket does not take the claim back.
AfterWalkKeeps(m, p, w) ==
    IF Ticketed(w) THEN m
    ELSE IF draining THEN ClearRetry(m, p)
    ELSE SetClaim(m, p, FALSE)

\* What the tick leaves of the claim: `reclaim_retry` behind a ticket, since
\* an earlier candidate may have given the claim up, or else `retry_claim`.
AfterWalk(m, p, w) ==
    IF Ticketed(w) THEN SetClaim(m, p, TRUE)
    ELSE IF draining THEN ClearRetry(m, p)
    ELSE SetClaim(m, p, FALSE)

\* One turn of the retry timer for one due peer. The claim is cleared when
\* the peer is not authorized, has nothing to dial, or is an AutoNAT target.
RetryTick(p) ==
    /\ Due(p)
    /\ \/ mgr' = ClearRetry(mgr, p)
       \/ /\ p \in trusted
          /\ \E candidates \in SUBSET mgr.book[p] \ {{}} : \E w \in Walks(mgr, p, candidates) :
                mgr' = AfterWalk(Walk(SetClaim(mgr, p, TRUE), p, w, TRUE), p, w)
    /\ UNCHANGED <<now, trusted, draining, relay>>

-----------------------------------------------------------------------------
(* What the Swarm reports. *)

Settled(d) == [mgr EXCEPT !.dials = MapDrop(@, {d})]

\* `settle_established_outbound`, whether or not the connection is kept.
Established(d) ==
    /\ d \in DOMAIN mgr.dials
    /\ LET t == mgr.dials[d]
       IN  mgr' = IF t.peer \notin trusted \/ draining
                  THEN RecordWithdrawn(Settled(d), t.peer, t.owns)
                  ELSE RecordSuccess(Settled(d), t.peer, t.route)
    /\ UNCHANGED <<now, trusted, draining, relay>>

\* `record_inbound_retained`.
EstablishedInbound(p) ==
    /\ p \in trusted /\ ~draining /\ p \in DOMAIN mgr.retries
    /\ mgr' = ClearRetry(mgr, p)
    /\ UNCHANGED <<now, trusted, draining, relay>>

\* `unreached_relay`: the relay was not connected, or dropped the request.
\* Only an error of the transport says so.
Errors == {"transport", "canceled", "other"}
Unreached(t, error) ==
    /\ t.route = "circuit" /\ error # "other"
    /\ ~relay \/ error = "canceled"

\* A dial failed: `settle_outcome` and `settle_failed_dial`.
Failed(d) ==
    /\ d \in DOMAIN mgr.dials
    /\ LET t == mgr.dials[d]
           p == t.peer
           m == Settled(d)
       IN  \/ \E error \in Errors :
                 IF Unreached(t, error)
                 THEN mgr' = RecordRelayHopUnreached(m, p, t.owns, relay /\ t.cameUp)
                 ELSE mgr' \in {RecordFailure(m, p, t.route, t.owns),
                                RecordPermanentFailure(m, p, t.route, t.owns, TRUE),
                                RecordPermanentFailure(m, p, t.route, t.owns, FALSE)}
           \/ mgr' = RecordIdentityMismatch(m, p, t.owns)
           \/ mgr' = RecordWithdrawn(m, p, t.owns)
    /\ UNCHANGED <<now, trusted, draining, relay>>

\* `relay_reached`: whoever waited on the relay becomes due.
RelayUp ==
    /\ ~relay /\ relay' = TRUE
    /\ mgr' = [mgr EXCEPT
         !.dials = [d \in DOMAIN @ |-> [@[d] EXCEPT !.cameUp = mgr.dials[d].route = "circuit"]],
         !.retries = [p \in DOMAIN @ |->
             IF ~@[p].claimed /\ @[p].waits
             THEN [@[p] EXCEPT !.due = Least(@, now), !.waits = FALSE] ELSE @[p]]]
    /\ UNCHANGED <<now, trusted, draining>>

RelayDown ==
    /\ relay /\ relay' = FALSE
    /\ UNCHANGED <<now, trusted, draining, mgr>>

-----------------------------------------------------------------------------
(* What is learnt, and what an operator does. *)

\* `learn_address`: an untried address makes an unclaimed retry due.
LearnAddress(p, route) ==
    /\ p \in trusted /\ route \in Reachable[p] \ mgr.book[p]
    /\ \E untried \in BOOLEAN :
          mgr' = [mgr EXCEPT !.book[p] = @ \cup {route},
                             !.retries = IF untried /\ p \in DOMAIN @ /\ ~@[p].claimed
                                         THEN [@ EXCEPT ![p].due = Least(@, now)] ELSE @]
    /\ UNCHANGED <<now, trusted, draining, relay>>

\* `network_added`: the peers not lifted lately become due.
NetworkAdded ==
    /\ \E lifted \in SUBSET {p \in trusted \cap DOMAIN mgr.retries :
                                ~mgr.retries[p].claimed /\ mgr.retries[p].due > now} :
          /\ lifted # {}
          /\ mgr' = [mgr EXCEPT !.retries =
                [p \in DOMAIN @ |-> IF p \in lifted THEN [@[p] EXCEPT !.due = now] ELSE @[p]]]
    /\ UNCHANGED <<now, trusted, draining, relay>>

SetTrust(peers) ==
    /\ trusted' = peers
    /\ UNCHANGED <<now, draining, relay, mgr>>

BeginShutdown ==
    /\ ~draining /\ draining' = TRUE
    /\ UNCHANGED <<now, trusted, relay, mgr>>

Clock ==
    /\ now < MaxTime /\ now' = now + 1
    /\ UNCHANGED <<trusted, draining, relay, mgr>>

RetriesInit ==
    /\ now = 0 /\ trusted \in TrustSets
    /\ draining = FALSE /\ relay = FALSE
    /\ mgr = [book |-> [p \in Peers |-> {}], retries |-> EmptyMap, dials |-> EmptyMap]

RetriesNext ==
    \/ \E p \in Peers : RetryTick(p) \/ DialPeer(p) \/ EstablishedInbound(p)
    \/ \E d \in Slots : Established(d) \/ Failed(d)
    \/ \E p \in Peers, route \in Routes : LearnAddress(p, route)
    \/ \E peers \in TrustSets : SetTrust(peers)
    \/ RelayUp \/ RelayDown \/ NetworkAdded \/ BeginShutdown \/ Clock

RetriesSpec == RetriesInit /\ [][RetriesNext]_retryVars

-----------------------------------------------------------------------------
(* Properties. *)

\* A claimed retry is an attempt under way (`Retry::claimed`): otherwise the
\* scheduler never offers the peer again.
ClaimedMeansUnderWay == \A p \in Peers : Claimed(mgr, p) => DialsPeer(mgr, p)

\* The same for the peers that are only ever reached directly.
DirectClaimsUnderWay ==
    \A p \in Peers : (Claimed(mgr, p) /\ "circuit" \notin Reachable[p]) => DialsPeer(mgr, p)

\* While a dial the scheduler started is under way, nothing but the end of a
\* dial that owns the claim gives the claim back: the failure of another
\* dial to the peer does not let the next tick start a second attempt.
Unclaims(p) == Claimed(mgr, p) /\ p \in DOMAIN mgr'.retries /\ ~Claimed(mgr', p)
UnclaimStep ==
    \A p \in Peers : Unclaims(p) =>
        \E d \in DOMAIN mgr.dials \ DOMAIN mgr'.dials : mgr.dials[d].peer = p /\ mgr.dials[d].owns
\* No step of the loop gives back a claim it does not own
\* (`record_failure`, `held_by_another`).
ClaimsAreGivenBackByOwners == [][UnclaimStep]_retryVars

\* The dial a tick starts for the scheduler leaves its peer claimed, whatever
\* the candidates walked before it did to the entry.
StartStep ==
    \A d \in DOMAIN mgr'.dials \ DOMAIN mgr.dials :
        mgr'.dials[d].owns => Claimed(mgr', mgr'.dials[d].peer)
\* No tick lets the next one start a second dial beside its own because an
\* earlier candidate failed at once and released the claim (`reclaim_retry`
\* in the loop over the candidates).
StartedMeansClaimed == [][StartStep]_retryVars

=============================================================================
