---------------------------- MODULE Connectivity ----------------------------
(***************************************************************************)
(* Reachability and relay reservations together, in the one task that      *)
(* drives both (mod.rs of crates/transport/libp2p/src/runtime), and the    *)
(* changes of the network they answer (network_change.rs).                 *)
(*                                                                         *)
(* An action is one turn of the loop's `select!`, a step of the AutoNAT    *)
(* client, or a unit of time.                                              *)
(***************************************************************************)
EXTENDS AutonatDriver, Reservations

CONSTANTS
    Jitters,      \* jitters drawn from 0..retry_min_ms
    MaxPerCycle,  \* `max_candidate_addresses_per_cycle`
    Scenarios     \* what the world of a run holds, and how often it moves

VARIABLES
    au,         \* AutonatState
    rs,         \* RelayState
    net,        \* NetworkSet
    authorized, \* the peers the connection manager authorises
    ticked,     \* whether the timer fired in this unit of time
    world       \* the scenario, its allowances counted down

vars == <<au, rs, net, authorized, ticked, world>>

\* `NetworkSet::default`.
NewNetworkSet == [known |-> {}, listeners |-> {}, view |-> {}, filled |-> FALSE]

Init ==
    /\ world \in Scenarios
    /\ au = NewAutonatState(world.staticServers)
    /\ rs = NewRelayState(world.staticRelays)
    /\ net = NewNetworkSet
    /\ authorized = world.peers
    /\ ticked = FALSE

Allowed(what) == world[what] > 0
Spend(what) == world' = [world EXCEPT ![what] = @ - 1] /\ UNCHANGED ticked

-----------------------------------------------------------------------------
(* The loop. *)

\* `follow_verdict`, for each event of a turn.
FollowVerdict(r, events) == FoldLeft(SetDirectInbound, r, events)

EventsOf(steps) == FlattenSeq([i \in 1..(Len(steps) - 1) |-> Events(steps[i], steps[i + 1])])

\* The bound addresses this host holds.
Bound(n) == n.listeners \cap n.known

\* How it goes with the relays a turn may ask or give up.
Luck(relays) ==
    [relays -> {[listens |-> TRUE, jitter |-> 0]} \cup [listens : {FALSE}, jitter : Jitters]]
Touched(r) ==
    In(r, "Idle") \cup {q \in In(r, "Backoff") : StateOf(r, q).left = 0}
    \cup PastHorizon(r) \cup (DOMAIN r.byRelay \ authorized)

\* The loop's tick: AutoNAT, the verdicts it came to, then the relays.  The bound on
\* listener ids keeps it waiting while too many released ones are still to close.
RetryTick ==
    Cardinality(FreeListeners(rs)) >= TargetPrivate /\
    \E dials \in [DueTargets(au) -> IF world.calm THEN {"ticketed"} ELSE {"ticketed", "paced", "refused"}] :
       LET steps == ReconcileSteps(au, authorized, Bound(net), dials)
           followed == FollowVerdict(rs, EventsOf(steps))
       IN  \E luck \in Luck(Touched(followed)) :
              /\ au' = Last(steps)
              /\ rs' = ReconcileRelays(followed, authorized, luck)
              /\ ticked' = TRUE
              /\ UNCHANGED <<net, authorized, world>>

\* `apply` of the network set: `known` follows what came and went.
Moved(n, before, now, protected) ==
    [removed |-> ((before \ now) \ protected) \cap n.known, added |-> (now \ before) \ n.known]

\* `on_network_change`; `before` is the set before the observation.
OnNetworkChange(before, n, change) ==
    LET known == (before.known \ change.removed) \cup change.added
        fills == ~before.filled /\ known # {}
        told == before.filled /\ (change.removed # {} \/ change.added # {})
    IN  /\ net' = [n EXCEPT !.known = known, !.filled = @ \/ fills]
        /\ \E jitter \in 0..CrateTick, gated \in SUBSET In(rs, "Backoff") :
              LET moved == IF told /\ change.removed # {}
                           THEN NetworkMoved(au, Bound(net'), jitter) ELSE au
                  followed == FollowVerdict(rs, Events(au, moved))
              IN  /\ au' = moved
                  /\ rs' = IF fills \/ (told /\ change.added # {})
                           THEN NetworkAdded(followed, gated) ELSE followed

\* `observe_listeners`, when the bound addresses change.
ObserveListeners ==
    /\ Allowed("moves") /\ Spend("moves") /\ UNCHANGED authorized
    /\ \E now \in world.hosts \ {net.listeners} :
          OnNetworkChange(net, [net EXCEPT !.listeners = now], Moved(net, net.listeners, now, net.view))

\* `observe_view`, when the platform reports its addresses.
ObserveView ==
    /\ Allowed("moves") /\ Spend("moves") /\ UNCHANGED authorized
    /\ \E now \in world.hosts \ {net.view} :
          OnNetworkChange(net, [net EXCEPT !.view = now], Moved(net, net.view, now, {}))

\* A trust update: the relays at once, the servers at the next tick.
SetTrust ==
    /\ Allowed("revokes") /\ Spend("revokes") /\ UNCHANGED <<au, net>>
    /\ \E p \in world.peers, luck \in Luck(DOMAIN rs.byRelay) :
          /\ authorized' = IF p \in authorized THEN authorized \ {p} ELSE authorized \cup {p}
          /\ rs' = ForgetDeauthorized(rs, authorized', luck)

\* Identify: both drivers look at it.
Identify(p, serves) ==
    /\ au' = IF p \in Servers
             THEN LearnServer(OfferServer(au, p, serves), p, serves, authorized) ELSE au
    /\ rs' = IF p \in Relays /\ serves THEN Learn(rs, p, authorized) ELSE rs
    /\ UNCHANGED <<net, authorized, ticked, world>>

\* An address a peer claims to have seen.
Claim(a) ==
    /\ Allowed("claims") /\ Spend("claims")
    /\ au' = AdmitCandidate(au, a)
    /\ UNCHANGED <<rs, net, authorized>>

\* A connection to a server, dialled by this profile or not, and a failed dial.
Connection(s, dialled) ==
    /\ s \in world.peers /\ s \notin DOMAIN au.links
    /\ world.calm => dialled
    /\ dialled => s \in DOMAIN au.targets /\ au.targets[s].inFlight
    /\ au' = IF dialled THEN [Settle(au, s) EXCEPT !.links = MapPut(@, s, FALSE)] ELSE Settle(au, s)
    /\ UNCHANGED <<rs, net, authorized, ticked, world>>

DialFails(s) ==
    /\ ~world.calm /\ s \in DOMAIN au.targets /\ au.targets[s].inFlight
    /\ au' = Settle(au, s)
    /\ UNCHANGED <<rs, net, authorized, ticked, world>>

Disconnects(s) ==
    /\ s \in DOMAIN au.links /\ Allowed("losses") /\ Spend("losses")
    /\ au' = [au EXCEPT !.links = MapDrop(@, {s})]
    /\ UNCHANGED <<rs, net, authorized>>

-----------------------------------------------------------------------------
(* The AutoNAT client and the servers it asks. *)

Client(next) == au' = next /\ UNCHANGED <<rs, net, authorized, ticked, world>>

\* The client learns that a server it is connected to serves.
HasServerSupport(s) == s \in DOMAIN au.links /\ ~au.links[s] /\ Client([au EXCEPT !.links[s] = TRUE])

ClientServers == {s \in DOMAIN au.links : au.links[s]}
UntestedCandidates == {a \in DOMAIN au.tests : au.tests[a].st = "Untested"}

\* The client's tick.
ClientTick ==
    /\ ClientServers # {} /\ UntestedCandidates # {}
    /\ \E now \in kSubset(Min({MaxPerCycle, Cardinality(UntestedCandidates)}), UntestedCandidates) :
          \E asked \in [now -> ClientServers] : Client(IssueDialRequests(au, asked))

Waiting(a) == a \in DOMAIN au.tests /\ au.tests[a].by \in DOMAIN au.links

\* The dial-back arrives.
DialBack(a) ==
    /\ Waiting(a) /\ au.tests[a].st = "Pending"
    /\ Client([au EXCEPT !.tests[a].st = "Received"])

\* The server's answers: reachable, not reachable in words the driver knows or
\* does not, a broken stream, a server that is none.
TestReachable(a) ==
    /\ Waiting(a) /\ au.tests[a].st = "Received"
    /\ LET next == Outcome(Ends(au, a, "Received"), a, au.tests[a].by, TRUE)
       IN  au' = next /\ rs' = FollowVerdict(rs, Events(au, next))
    /\ UNCHANGED <<net, authorized, ticked, world>>

TestUnreachable(a, classified) ==
    /\ ~world.calm /\ Waiting(a)
    /\ LET failed == Ends(au, a, "Failed")
           next == IF classified THEN Outcome(failed, a, au.tests[a].by, FALSE) ELSE failed
       IN  au' = next /\ rs' = FollowVerdict(rs, Events(au, next))
    /\ UNCHANGED <<net, authorized, ticked, world>>

TestBroken(a) == ~world.calm /\ Waiting(a) /\ Client(Ends(au, a, "Untested"))

TestUnsupported(a) ==
    /\ ~world.calm /\ Waiting(a)
    /\ Client([Ends(au, a, "Untested") EXCEPT !.links[au.tests[a].by] = FALSE])

-----------------------------------------------------------------------------
(* The relays' listeners. *)

ListenerEvent(next) == rs' = next /\ UNCHANGED <<au, net, authorized, ticked, world>>

RelayListens(id, circuit) ==
    id \in DOMAIN rs.sockets /\ ListenerEvent(NewListenAddr(rs, id, <<rs.sockets[id], circuit>>))

RelayListenerCloses(id) ==
    /\ id \in DOMAIN rs.sockets
    /\ \E jitter \in Jitters : ListenerEvent(ListenerClosed(rs, id, jitter))

\* Time, in units of the loop's timer.  In a calm world dials and tests end well
\* within a unit.
Elapse ==
    /\ ticked
    /\ world.calm => /\ \A a \in DOMAIN au.tests : ~Waiting(a)
                     /\ ClientServers = {} \/ UntestedCandidates = {}
                     /\ \A s \in DOMAIN au.targets : ~au.targets[s].inFlight
                     /\ DOMAIN au.links = ClientServers /\ DOMAIN au.links \subseteq au.manager.servers
    /\ au' = AgeAutonat(au) /\ rs' = AgeRelays(rs) /\ ticked' = FALSE
    /\ UNCHANGED <<net, authorized, world>>

Next ==
    \/ Elapse \/ RetryTick \/ ObserveListeners \/ ObserveView \/ SetTrust \/ ClientTick
    \/ \E p \in world.peers, serves \in BOOLEAN : Identify(p, serves)
    \/ \E a \in Addresses : Claim(a)
    \/ \E s \in Servers : Connection(s, TRUE) \/ Connection(s, FALSE) \/ DialFails(s)
                          \/ Disconnects(s) \/ HasServerSupport(s)
    \/ \E a \in Addresses : \/ DialBack(a) \/ TestReachable(a) \/ TestUnreachable(a, TRUE)
                            \/ TestUnreachable(a, FALSE) \/ TestBroken(a) \/ TestUnsupported(a)
    \/ \E id \in Listeners : \/ \E c \in Circuits : RelayListens(id, c)
                             \/ RelayListenerCloses(id)

Spec == Init /\ [][Next]_vars

\* Time passes and the loop's timer fires, for ever (only `RetryTick` sets `ticked`
\* and only `Elapse` clears it); the client draws servers at random, so it passes
\* over none it could ask again and again.
Asks(s) == \E a \in DOMAIN au.tests : au.tests[a].by # s /\ au'.tests[a].by = s
Fairness ==
    /\ []<><<ticked'>>_ticked /\ []<><<~ticked'>>_ticked
    /\ \A s \in Servers :
          []<>(s \in ClientServers /\ UntestedCandidates # {}) => []<><<Asks(s)>>_au

FairSpec == Spec /\ Fairness

-----------------------------------------------------------------------------
\* What the Swarm advertises is what is so (`publish`, `sync`): its external
\* addresses are the verified ones and the circuits of reservations held.
AdvertisedIsTrue ==
    /\ au.external = au.manager.verdict.verified
    /\ rs.external = HeldAddresses(rs)

\* Between two turns the reservation manager knows the verdict the reachability
\* manager came to (`follow_verdict`), and no more than the larger target is held
\* or asked for (`tick`). Reservations, listeners and the Swarm agree (`listen`,
\* `abandon_listener`, `handle_relay`): a relay is asked or holds a reservation
\* exactly while it has a listener, and every listener of the Swarm is a relay's
\* or waits to be closed.
ReservationsAgree ==
    /\ rs.direct = au.manager.verdict.state
    /\ Holding(rs) <= TargetPrivate
    /\ In(rs, "Active") \cup In(rs, "Requested") = DOMAIN rs.byRelay
    /\ \A r \in DOMAIN rs.byRelay : rs.listeners[rs.byRelay[r]] = r
    /\ DOMAIN rs.listeners \cap rs.released = {}
    /\ DOMAIN rs.sockets = DOMAIN rs.listeners \cup rs.released
    /\ Cardinality(DOMAIN rs.listeners) = Cardinality(DOMAIN rs.byRelay)

\* `evidence_until_ms` is when the first verified address leaves the set if
\* nothing more is heard, neither earlier nor later (`derive`).
Aged(m, t) == FoldLeft(LAMBDA x, i : AgeManager(x), m, [i \in 1..t |-> i])
HorizonIsExact ==
    LET m == au.manager
        stays(t) == m.verdict.verified \subseteq Derive(Aged(m, t)).verified
    IN  m.verdict.until > 0 => /\ \A t \in 0..(m.verdict.until - 1) : stays(t)
                               /\ ~stays(m.verdict.until)

\* In a calm world, where dials and tests succeed, a profile that can be reached
\* finds out, and again after each move of its network or loss of a server
\* (`reconcile`, `retest_all`): no address is left untested.
FindsItself ==
    world.calm => []<>(Bound(net) = {} \/ au.manager.verdict.state = "VerifiedPublic")

=============================================================================
