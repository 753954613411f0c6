----------------------------- MODULE HeldSends ------------------------------
(***************************************************************************)
(* Direct sends to a peer without a connection: the dial they start, the   *)
(* circuit that waits out its head start, and what becomes of the sends    *)
(* held meanwhile (held_sends.rs, path_race.rs and their uses in           *)
(* commands.rs and mod.rs of crates/transport/libp2p/src/runtime).         *)
(*                                                                         *)
(* The Swarm loop is one task, so one action is one turn of its `select!`. *)
(* What is known of a peer's addresses and what the gate and the Swarm say *)
(* to one attempt are choices here; the retry schedule is in Retries.      *)
(***************************************************************************)
EXTENDS Naturals, FiniteSets, FiniteSetsExt, Maps

CONSTANTS
    Peers,              \* remote peers
    Reachable,          \* Peers -> the routes by which a peer may be known
    Sends,              \* the sends callers make
    MaxDials,           \* `max_pending_dials`
    MaxPerPeer,         \* `max_connections_per_peer`
    MaxConnected,       \* `max_connected_peers`
    MaxConnections,     \* `max_connections`, dials in flight included
    MaxOutbound,        \* MAX_OUTBOUND_DIRECT
    MaxOutboundPerPeer, \* MAX_OUTBOUND_DIRECT_PER_PEER
    Horizon,            \* SEND_DIAL_HORIZON_MS
    HeadStart,          \* `head_start_ms`
    Policies,           \* the classes of the peers an operator may load
    NoPeer,             \* the peer of a send that was not made
    MaxTime             \* bound on the clock

Routes == {"direct", "circuit"}

\* An infrastructure-only peer's connection carries no data plane.
Kinds == Routes \cup {"infra"}

\* `ConnectionClass`.
Classes == {"data", "infra", "none"}

ASSUME HeldSendsAssumption ==
    /\ IsFiniteSet(Peers) /\ IsFiniteSet(Sends) /\ NoPeer \notin Peers
    /\ Reachable \in [Peers -> SUBSET Routes]
    /\ Policies \subseteq [Peers -> Classes]
    /\ {MaxDials, MaxPerPeer, MaxConnected, MaxConnections, MaxOutbound, MaxOutboundPerPeer}
          \subseteq Nat \ {0}
    /\ {Horizon, HeadStart, MaxTime} \subseteq Nat

\* `HeldSend` and `PendingDirect`; `gone` once nobody waits for the reply.
Send == [st : {"new", "held", "wire", "done"}, peer : Peers \cup {NoPeer},
         until : Nat, gone : BOOLEAN]

VARIABLES
    now,      \* the loop's clock
    class,    \* Peers -> ConnectionClass
    draining, \* `is_draining`
    leased,   \* whether the sender's lease is live
    dials,    \* Peers -> Routes -> dials in flight
    open,     \* Peers -> Kinds -> connections kept
    refused,  \* peers with a connection that is refused and not closed yet
    races,    \* `Races`: peer -> when its circuit is dialled
    sends     \* Sends -> Send

world == <<class, draining, leased>>
heldVars == <<now, world, dials, open, refused, races, sends>>

DialsPeer(p) == \E route \in Routes : dials[p][route] > 0
IsOpen(p) == \E kind \in Kinds : open[p][kind] > 0
IsConnected(p) == IsOpen(p) \/ p \in refused
HeldFor(p) == {s \in Sends : sends[s].st = "held" /\ sends[s].peer = p}
HasWay(p) == DialsPeer(p) \/ p \in DOMAIN races \/ IsOpen(p)

Dials(p) == MapThenSumSet(LAMBDA route : dials[p][route], Routes)
Connections(p) == MapThenSumSet(LAMBDA kind : open[p][kind], Kinds)
TotalDials == MapThenSumSet(Dials, Peers)

\* `admits_retention`.
AdmitsRetention(p) ==
    /\ Connections(p) < MaxPerPeer
    /\ IsOpen(p) \/ Cardinality({q \in Peers : IsOpen(q)}) < MaxConnected

\* `reserve` of a connection: a dial in flight holds one.
HasSlot == TotalDials + MapThenSumSet(Connections, Peers) < MaxConnections

-----------------------------------------------------------------------------
(* Starting dials. *)

\* The gate admits a dial, to a data-plane peer.
DialRoom == ~draining /\ TotalDials < MaxDials /\ HasSlot
GateAdmits(p) == class[p] = "data" /\ DialRoom

\* The routes of which one attempt may come to a dial under way.
MayDial(p, routes) == IF GateAdmits(p) THEN SUBSET routes ELSE {{}}

AddDial(p, route) == dials' = [dials EXCEPT ![p][route] = @ + 1]

\* `dial_peer`, when attempts at the routes `ok` succeed: direct routes
\* first; with one under way the circuit waits, otherwise it is dialled now.
DialCandidates(p, candidates, ok) ==
    IF "direct" \in ok
    THEN /\ AddDial(p, "direct")
         /\ races' = IF "circuit" \in candidates THEN MapPut(races, p, now + HeadStart) ELSE races
    ELSE IF "circuit" \in ok THEN AddDial(p, "circuit") /\ UNCHANGED races
    ELSE UNCHANGED <<dials, races>>

\* SwarmCommand::DialPeer.
DialPeer(p) ==
    /\ open[p]["direct"] = 0
    /\ \E candidates \in SUBSET Reachable[p] : \E ok \in MayDial(p, candidates) :
          DialCandidates(p, candidates, ok)
    /\ UNCHANGED <<now, world, open, refused, sends>>

\* A dial of the retry timer, of SwarmCommand::Dial, or of a driver that asks
\* for an infrastructure peer.
OtherDial(p, route) ==
    /\ route \in Reachable[p]
    /\ GateAdmits(p) \/ (route = "direct" /\ class[p] = "infra" /\ DialRoom)
    /\ AddDial(p, route)
    /\ UNCHANGED <<now, world, open, refused, races, sends>>

-----------------------------------------------------------------------------
(* Sends. *)

Outbound(sts) == {s \in Sends : sends[s].st \in sts}
OutboundTo(p, sts) == {s \in Outbound(sts) : sends[s].peer = p}

\* Mutant of AdmitsOutbound: only the exchanges on the wire are counted.
AdmitsUncountedHeld(p) ==
    /\ Cardinality(Outbound({"wire"})) < MaxOutbound
    /\ Cardinality(OutboundTo(p, {"wire"})) < MaxOutboundPerPeer

\* `admit_outbound`.
AdmitsOutbound(p) ==
    /\ Cardinality(Outbound({"held", "wire"})) < MaxOutbound
    /\ Cardinality(OutboundTo(p, {"held", "wire"})) < MaxOutboundPerPeer

\* `held_send_policy`, also the refusals of SwarmCommand::SendDirect.
MayDispatch(p) == leased /\ ~draining /\ class[p] = "data"

\* SwarmCommand::SendDirect: refused, put on the wire, or held for a dial
\* that is under way or starts now.
SendDirect(s, p) ==
    /\ sends[s].st = "new" /\ now + Horizon <= MaxTime
    /\ LET As(st) == sends' = [sends EXCEPT ![s] = [st |-> st, peer |-> p,
                                                    until |-> now + Horizon, gone |-> FALSE]]
       IN  IF ~MayDispatch(p) \/ ~AdmitsOutbound(p) THEN As("done") /\ UNCHANGED <<dials, races>>
           ELSE IF IsConnected(p) THEN As("wire") /\ UNCHANGED <<dials, races>>
           ELSE \/ DialsPeer(p) /\ As("held") /\ UNCHANGED <<dials, races>>
                \/ As("done") /\ UNCHANGED <<dials, races>>  \* no known address
                \/ /\ ~DialsPeer(p)
                   /\ \E candidates \in SUBSET Reachable[p] : \E ok \in MayDial(p, candidates) :
                         /\ DialCandidates(p, candidates, ok)
                         /\ IF ok = {} THEN As("done") ELSE As("held")
    /\ UNCHANGED <<now, world, open, refused>>

Answer(s) == [sends[s] EXCEPT !.st = "done"]

\* The caller of a send stops waiting.
StopWaiting(s) ==
    /\ sends[s].st = "held" /\ ~sends[s].gone
    /\ sends' = [sends EXCEPT ![s].gone = TRUE]
    /\ UNCHANGED <<now, world, dials, open, refused, races>>

\* An exchange on the wire ends, by its answer, its failure or its timeout.
Exchanged(s) ==
    /\ sends[s].st = "wire"
    /\ sends' = [sends EXCEPT ![s] = Answer(s)]
    /\ UNCHANGED <<now, world, dials, open, refused, races>>

\* SwarmCommand::Drain: no new work, and the held sends are left waiting.
Drain ==
    /\ ~draining /\ draining' = TRUE
    /\ UNCHANGED <<now, class, leased, dials, open, refused, races, sends>>

\* SwarmCommand::Shutdown, which answers every held send first. A loop with
\* nothing else in flight ends here.
Shutdown ==
    /\ draining' = TRUE
    /\ sends' = [s \in Sends |-> IF sends[s].st = "held" THEN Answer(s) ELSE sends[s]]
    /\ UNCHANGED <<now, class, leased, dials, open, refused, races>>

\* SwarmCommand::SetTrust. The connections it closes go by Closed.
SetTrust(policy) ==
    /\ class' = policy
    /\ UNCHANGED <<now, draining, leased, dials, open, refused, races, sends>>

\* The sender's lease ends (see EndpointLeases).
EndLease ==
    /\ leased /\ leased' = FALSE
    /\ UNCHANGED <<now, class, draining, dials, open, refused, races, sends>>

-----------------------------------------------------------------------------
(* Timers. *)

\* Mutant of Expired: only the sends nobody waits for.
ExpiredIfGone(s) == sends[s].st = "held" /\ sends[s].gone

\* `take_expired`.
Expired(s) == sends[s].st = "held" /\ (sends[s].until <= now \/ sends[s].gone)

ExpireHeld ==
    /\ \E s \in Sends : Expired(s)
    /\ sends' = [s \in Sends |-> IF Expired(s) THEN Answer(s) ELSE sends[s]]
    /\ UNCHANGED <<now, world, dials, open, refused, races>>

\* The loop wakes at the earliest horizon; the retry timer wakes anyway.
HeldDue == (\E s \in Outbound({"held"}) : sends[s].until <= now) /\ ExpireHeld
RetryTick == ExpireHeld

\* `take_due`: the circuit is dialled unless a direct connection is up. An
\* attempt the gate refuses answers nobody.
RaceDue(p) ==
    /\ p \in DOMAIN races /\ races[p] <= now
    /\ races' = MapDrop(races, {p})
    /\ \/ UNCHANGED dials
       \/ open[p]["direct"] = 0 /\ GateAdmits(p) /\ AddDial(p, "circuit")
    /\ UNCHANGED <<now, world, open, refused, sends>>

Clock ==
    /\ now < MaxTime /\ now' = now + 1
    /\ UNCHANGED <<world, dials, open, refused, races, sends>>

-----------------------------------------------------------------------------
(* What the Swarm reports. *)

Settle(p, route) == dials[p][route] > 0 /\ dials' = [dials EXCEPT ![p][route] = @ - 1]

\* Mutant of FailHeld: the circuit still waiting is not looked at.
FailHeldEarly(p) ==
    sends' = [s \in Sends |-> IF s \in HeldFor(p) /\ ~DialsPeer(p)' THEN Answer(s) ELSE sends[s]]

\* A held send fails with the last way to its peer.
FailHeld(p) ==
    sends' = [s \in Sends |-> IF s \in HeldFor(p) /\ ~HasWay(p)' THEN Answer(s) ELSE sends[s]]

\* A connection the node keeps: the held sends go out, each if the policy
\* of this moment lets it (`dispatch_held`).
Keep(p, kind) ==
    /\ open' = [open EXCEPT ![p][kind] = @ + 1]
    /\ races' = IF kind = "direct" THEN MapDrop(races, {p}) ELSE races
    /\ sends' = [s \in Sends |-> IF s \notin HeldFor(p) THEN sends[s]
                                 ELSE IF MayDispatch(p) THEN [sends[s] EXCEPT !.st = "wire"]
                                 ELSE Answer(s)]
    /\ UNCHANGED refused

\* What a connection may be kept as, or "none". `authorizes_for` keeps a
\* direct one of an infrastructure-only peer under an origin that asks for no
\* more.
Retention(p, route) ==
    IF draining \/ ~AdmitsRetention(p) THEN {"none"}
    ELSE CASE class[p] = "data" -> {route}
           [] class[p] = "infra" /\ route = "direct" -> {"infra", "none"}
           [] OTHER -> {"none"}

\* A dial connected: `settle_established_outbound`.
Established(p, route) ==
    /\ Settle(p, route)
    /\ \/ \E kind \in Retention(p, route) \ {"none"} : Keep(p, kind)
       \/ /\ "none" \in Retention(p, route)
          /\ refused' = refused \cup {p} /\ UNCHANGED <<open, races>> /\ FailHeld(p)
    /\ UNCHANGED <<now, world>>

\* The peer connected to this node: `settle_established_inbound`, which also
\* needs a slot. One that is refused answers nobody.
EstablishedInbound(p, route) ==
    /\ route \in Reachable[p]
    /\ \/ HasSlot /\ \E kind \in Retention(p, route) \ {"none"} : Keep(p, kind)
       \/ /\ ~HasSlot \/ "none" \in Retention(p, route)
          /\ refused' = refused \cup {p} /\ UNCHANGED <<open, races, sends>>
    /\ UNCHANGED <<now, world, dials>>

\* A dial failed, for whatever reason.
Failed(p, route) ==
    /\ Settle(p, route)
    /\ UNCHANGED <<now, world, open, refused, races>>
    /\ FailHeld(p)

Closed(p, kind) ==
    /\ open[p][kind] > 0
    /\ open' = [open EXCEPT ![p][kind] = @ - 1]
    /\ UNCHANGED <<now, world, dials, refused, races, sends>>

\* The last refused connection of the peer is closed.
RefusedClosed(p) ==
    /\ p \in refused /\ refused' = refused \ {p}
    /\ UNCHANGED <<now, world, dials, open, races, sends>>

NoneOf(kinds) == [p \in Peers |-> [kind \in kinds |-> 0]]

HeldInit ==
    /\ now = 0 /\ class \in Policies
    /\ draining = FALSE /\ leased = TRUE
    /\ dials = NoneOf(Routes) /\ open = NoneOf(Kinds)
    /\ refused = {} /\ races = EmptyMap
    /\ sends = [s \in Sends |-> [st |-> "new", peer |-> NoPeer, until |-> 0, gone |-> FALSE]]

HeldNext ==
    \/ \E s \in Sends, p \in Peers : SendDirect(s, p)
    \/ \E s \in Sends : StopWaiting(s) \/ Exchanged(s)
    \/ \E p \in Peers : DialPeer(p) \/ RaceDue(p) \/ RefusedClosed(p)
    \/ \E p \in Peers, route \in Routes :
          OtherDial(p, route) \/ Established(p, route) \/ EstablishedInbound(p, route)
             \/ Failed(p, route)
    \/ \E p \in Peers, kind \in Kinds : Closed(p, kind)
    \/ \E policy \in Policies : SetTrust(policy)
    \/ EndLease \/ Drain \/ Shutdown \/ HeldDue \/ RetryTick \/ Clock

\* Time passes, and the loop, whose `select!` waits for the earliest
\* horizon whatever else it has to do, wakes for it.
HeldSpec == HeldInit /\ [][HeldNext]_heldVars /\ WF_heldVars(Clock) /\ WF_heldVars(HeldDue)

-----------------------------------------------------------------------------
(* Properties. *)

\* A held send ends without an exchange only at its horizon, when its caller
\* stopped waiting, with the last way to its peer, at the shutdown, or over a
\* connection the policy forbids it.
GivesUpStep ==
    \A s \in Sends : (sends[s].st = "held" /\ sends'[s].st = "done") =>
        \/ sends[s].until <= now \/ sends[s].gone
        \/ ~HasWay(sends[s].peer)'
        \/ draining' /\ Outbound({"held"})' = {}
        \/ IsOpen(sends[s].peer)' /\ ~MayDispatch(sends[s].peer)
\* No step fails a held send that could still go out (`HeldSends`).
NotGivenUpEarly == [][GivesUpStep]_heldVars

\* What is held and what is on the wire stay within both ceilings together,
\* though a connection moves every send held for its peer at once
\* (`admit_outbound`).
OutboundBounded ==
    /\ Cardinality(Outbound({"held", "wire"})) <= MaxOutbound
    /\ \A p \in Peers : Cardinality(OutboundTo(p, {"held", "wire"})) <= MaxOutboundPerPeer

\* Nobody waits for ever: every held send ends.
HeldSendsEnd == \A s \in Sends : sends[s].st = "held" ~> sends[s].st # "held"
=============================================================================
