------------------------------ MODULE Broadcast ------------------------------
(***************************************************************************)
(* The broadcast plane of one node: the subscription registry              *)
(* (crates/transport/runtime/src/ingress.rs), the per-session queues       *)
(* (session_queue.rs), the admission of a message (broadcast_inbound.rs)   *)
(* and the commands and GossipSub events that drive them in the one        *)
(* runtime task (crates/transport/libp2p/src/runtime/broadcast.rs and      *)
(* commands.rs). Every handler runs to completion in that task, so each is *)
(* one action. GossipSub itself is external: the set of topics this node   *)
(* is subscribed to, and an answer to each call.                           *)
(***************************************************************************)
EXTENDS DedupCache, Functions

CONSTANTS
    Channels,          \* channel identifiers
    Sessions,          \* local data sessions
    Sources,           \* peers whose messages the mesh carries
    LocalPeer,         \* this node's own identity
    Ids,               \* message identifiers
    Prints,            \* what a payload's content fingerprint tells apart
    NotAllowed,        \* channels the GossipSub subscription filter refuses
    Wanted,            \* `desired` of the configurations
    Ceilings,          \* `max_subscriptions` of the configurations
    Bounds,            \* `queue_bound` of the configurations
    DefaultBound,      \* `DEFAULT_EVENT_QUEUE`
    MaxSubscriptions,  \* `MAX_SUBSCRIPTIONS`
    MaxSessions,       \* `MAX_SESSIONS_PER_CHANNEL`
    MaxTime            \* bound of the model: the clock stops here

ASSUME BroadcastAssumption ==
    /\ IsFiniteSet(Channels) /\ LocalPeer \notin Sources
    /\ Wanted \subseteq SUBSET Channels /\ Ceilings \subseteq Nat /\ Bounds \subseteq Nat
    /\ DefaultBound \in Nat \ {0}
    /\ MaxSubscriptions \in Nat /\ MaxSessions \in Nat /\ MaxTime \in Nat

VARIABLES
    desired,   \* `SubscriptionRegistry::desired`
    joins,     \* `SubscriptionRegistry::joins`: channel -> its sessions
    ceiling,   \* `SubscriptionRegistry::ceiling`
    queues,    \* `SessionQueues`: open session -> events, oldest first
    bound,     \* `queue_bound`, and the bound of every open queue
    known,     \* `BroadcastState::channels`: topics with a known channel
    mesh,      \* topics GossipSub is subscribed to (external)
    dedup,     \* `BroadcastState::dedup`
    trusted,   \* peers the trust policy allows
    draining,  \* whether the node is shutting down
    now        \* the monotonic clock

vars == <<desired, joins, ceiling, queues, bound, known, mesh, dedup, trusted, draining, now>>
registry == <<desired, joins, ceiling>>
topics == <<known, mesh>>

Keys == [source : Sources \cup {LocalPeer}, channel : Channels, id : Ids]
Events == [key : Keys, print : Prints, at : 0..MaxTime]
-----------------------------------------------------------------------------
\* SubscriptionRegistry.

\* `backend_should_subscribe`: a live join or the configuration wants it.
Backed(d, j) == d \cup DOMAIN j

\* `subscribers`.
Subscribers(c) == IF c \in DOMAIN joins THEN joins[c] ELSE {}

\* `holds_any`.
HoldsAny(j, s) == \E c \in DOMAIN j : s \in j[c]

\* `may_publish`.
MayPublish(c, s) == s \in Subscribers(c)

\* `join`: why a session may not join.
JoinDenied(c, s) ==
    \/ c \in DOMAIN joins /\ s \notin joins[c] /\ Cardinality(joins[c]) >= MaxSessions
    \/ c \notin DOMAIN joins \cup desired /\ Cardinality(Backed(desired, joins)) >= ceiling

\* `leave`: the last session of a channel takes the channel with it.
WithoutJoin(c, s) ==
    IF Subscribers(c) \subseteq {s} THEN MapDrop(joins, {c})
    ELSE [joins EXCEPT ![c] = @ \ {s}]
-----------------------------------------------------------------------------
\* SessionQueues.

\* Mutant of Push: a full queue refuses the event instead.
PushRefuses(q, e) == IF Len(q) >= bound THEN q ELSE Append(q, e)

\* `push`: a full queue drops its oldest event to take the new one.
Push(q, e) == Append(IF Len(q) >= bound /\ q # <<>> THEN Tail(q) ELSE q, e)

\* The queues after one event was pushed to each of `to` in turn; a session
\* with no open queue is reported and skipped.
PushTo(to, e) == [s \in DOMAIN queues |-> IF s \in to THEN Push(queues[s], e) ELSE queues[s]]
-----------------------------------------------------------------------------
\* `BroadcastState::new`.
Init ==
    /\ desired = {} /\ joins = EmptyMap /\ ceiling = MaxSubscriptions
    /\ queues = EmptyMap /\ bound = DefaultBound
    /\ known = {} /\ mesh = {}
    /\ dedup = NewCache
    /\ trusted \in SUBSET Sources
    /\ draining = FALSE /\ now = 0

\* The sweep of `ConfigureBroadcast` over the topics with a known channel:
\* those nobody backs any more are forgotten and unsubscribed.
Unheld(remembered, d) == remembered \ Backed(d, joins)

\* Mutant of ConfigureBroadcast: subscribes to the new set, and never drops
\* what the old one held.
ConfigureNeverDrops(want, cap, size) ==
    LET applied == want \ NotAllowed
    IN  /\ cap \in 1..MaxSubscriptions
        /\ Cardinality(Backed(want, joins)) <= cap
        /\ desired' = applied
        /\ ceiling' = cap
        /\ bound' = size
        /\ known' = known \cup applied
        /\ mesh' = mesh \cup applied
        /\ UNCHANGED <<joins, queues, dedup, trusted, draining, now>>

\* `ConfigureBroadcast` with a set the registry accepts: the bound reaches
\* every open queue, the new set is subscribed to as far as the filter
\* allows, the registry is narrowed to what was applied, and the sweep drops
\* what nobody holds. A refused channel's mapping is kept while it is joined.
ConfigureBroadcast(want, cap, size) ==
    LET applied    == want \ NotAllowed
        remembered == known \cup applied \cup (want \cap DOMAIN joins)
    IN  /\ cap \in 1..MaxSubscriptions
        /\ Cardinality(Backed(want, joins)) <= cap
        /\ desired' = applied
        /\ ceiling' = cap
        /\ bound' = size
        /\ known' = remembered \ Unheld(remembered, applied)
        /\ mesh' = (mesh \cup applied) \ Unheld(remembered, applied)
        /\ UNCHANGED <<joins, queues, dedup, trusted, draining, now>>

\* `ConfigureBroadcast` with a ceiling out of range, or a set that does not
\* fit under it beside the live joins: `configure` puts the old ceiling back.
ConfigureDenied(want, cap) ==
    /\ cap \notin 1..MaxSubscriptions \/ Cardinality(Backed(want, joins)) > cap
    /\ UNCHANGED vars

\* `SwarmCommand::Join`, joined: the topic is subscribed to, and the
\* session's queue is opened unless it has one.
Join(c, s) ==
    /\ ~JoinDenied(c, s)
    /\ c \notin NotAllowed
    /\ joins' = MapPut(joins, c, Subscribers(c) \cup {s})
    /\ known' = known \cup {c}
    /\ mesh' = mesh \cup {c}
    /\ queues' = IF s \in DOMAIN queues THEN queues ELSE MapPut(queues, s, <<>>)
    /\ UNCHANGED <<desired, ceiling, bound, dedup, trusted, draining, now>>

\* `SwarmCommand::Join` the mesh refuses: the join is taken back, and the
\* mapping with it when nobody else backs the channel.
JoinRefused(c, s) ==
    /\ ~JoinDenied(c, s)
    /\ c \in NotAllowed
    /\ joins' = WithoutJoin(c, s)
    /\ known' = IF c \in Backed(desired, joins') THEN known \cup {c} ELSE known \ {c}
    /\ UNCHANGED <<desired, ceiling, queues, bound, mesh, dedup, trusted, draining, now>>

\* `SwarmCommand::Leave`: the queue goes with the session's last join, the
\* topic with the channel's last holder.
Leave(c, s) ==
    /\ joins' = WithoutJoin(c, s)
    /\ queues' = IF HoldsAny(joins', s) THEN queues ELSE MapDrop(queues, {s})
    /\ known' = known \ ({c} \ Backed(desired, joins'))
    /\ mesh' = mesh \ ({c} \ Backed(desired, joins'))
    /\ UNCHANGED <<desired, ceiling, bound, dedup, trusted, draining, now>>

\* Mutant of Admit: a known identifier with other content is taken again.
AdmitConflicts(source, c, id, print, exclude) ==
    LET key   == [source |-> source, channel |-> c, id |-> id]
        live  == AfterAdmit(dedup, key, print, now)
        fresh == Verdict(Expire(dedup, now), key, print) # "DuplicateAccepted"
        event == [key |-> key, print |-> print, at |-> now]
    IN  /\ dedup' = IF fresh THEN RecordAccepted(live, key, "Broadcast", print, now) ELSE live
        /\ queues' = IF fresh THEN PushTo(Subscribers(c) \ exclude, event) ELSE queues

\* `admit_local_broadcast`: a message seen before, with the same or with
\* other content, goes nowhere; a fresh one goes to every subscriber but the
\* excluded session, and is remembered also when there is none.
Admit(source, c, id, print, exclude) ==
    LET key   == [source |-> source, channel |-> c, id |-> id]
        live  == AfterAdmit(dedup, key, print, now)
        fresh == Verdict(Expire(dedup, now), key, print) = "Fresh"
        event == [key |-> key, print |-> print, at |-> now]
    IN  /\ dedup' = IF fresh THEN RecordAccepted(live, key, "Broadcast", print, now) ELSE live
        /\ queues' = IF fresh THEN PushTo(Subscribers(c) \ exclude, event) ELSE queues

\* `SwarmCommand::Publish` GossipSub takes (also with no peer to send it to):
\* the node's other joined sessions get a copy, the publishing one does not.
Publish(c, s, id, print) ==
    /\ MayPublish(c, s)
    /\ ~draining
    /\ Admit(LocalPeer, c, id, print, {s})
    /\ known' = known \cup {c}
    /\ UNCHANGED <<registry, bound, mesh, trusted, draining, now>>

\* `handle_broadcast` of a message: decodable, its source trusted, its topic
\* known; then `admit_broadcast`, which a draining node refuses. A message
\* may have been on its way when its topic was dropped.
HandleBroadcast(source, c, id, print) ==
    /\ source \in trusted
    /\ c \in known
    /\ ~draining
    /\ Admit(source, c, id, print, {})
    /\ UNCHANGED <<registry, bound, topics, trusted, draining, now>>

\* `SwarmCommand::DrainSession`: at most `max` events, oldest first.
DrainSession(s, max) ==
    /\ s \in DOMAIN queues
    /\ queues' = [queues EXCEPT ![s] = SubSeq(@, max + 1, Len(@))]
    /\ UNCHANGED <<registry, bound, topics, dedup, trusted, draining, now>>

\* `adopt_trust`, from `SwarmCommand::SetTrust`: what was queued stays.
AdoptTrust(peers) ==
    /\ trusted' = peers
    /\ UNCHANGED <<registry, queues, bound, topics, dedup, draining, now>>

\* The node begins to shut down.
StartDraining ==
    /\ draining' = TRUE
    /\ UNCHANGED <<registry, queues, bound, topics, dedup, trusted, now>>

Tick ==
    /\ now < MaxTime
    /\ now' = now + 1
    /\ UNCHANGED <<registry, queues, bound, topics, dedup, trusted, draining>>

Next ==
    \/ \E want \in Wanted, cap \in Ceilings :
          \/ \E size \in Bounds : ConfigureBroadcast(want, cap, size)
          \/ ConfigureDenied(want, cap)
    \/ \E c \in Channels, s \in Sessions :
          Join(c, s) \/ JoinRefused(c, s) \/ Leave(c, s)
    \/ \E c \in Channels, s \in Sessions, id \in Ids, print \in Prints :
          Publish(c, s, id, print)
    \/ \E source \in Sources, c \in Channels, id \in Ids, print \in Prints :
          HandleBroadcast(source, c, id, print)
    \/ \E s \in Sessions : DrainSession(s, 1)
    \/ \E peers \in SUBSET Sources : AdoptTrust(peers)
    \/ StartDraining
    \/ Tick

Spec == Init /\ [][Next]_vars
-----------------------------------------------------------------------------
\* Across every order of joins, leaves and reconfigurations, the node is
\* subscribed in the mesh, and can attribute what arrives, for exactly the
\* channels the configuration or some live session holds; and a session has
\* a queue exactly while it holds a join, so `push` never meets a subscriber
\* without one and no queue outlives its session's last leave.
MeshFollowsRegistry ==
    /\ mesh = Backed(desired, joins) /\ known = mesh
    /\ DOMAIN queues = {s \in Sessions : HoldsAny(joins, s)}

\* No order of joins and reconfigurations, refused ones included, takes the
\* node past the ceiling in force (`join`, `configure`).
WithinCeiling == Cardinality(Backed(desired, joins)) <= ceiling

\* One message is not queued twice for one session within the time the
\* dedup cache remembers it, whether it came from the mesh or was published
\* here, also when it comes again with other content, while the cache is not
\* overflowing.
OncePerSession ==
    \A s \in DOMAIN queues : \A i, j \in DOMAIN queues[s] :
        i < j /\ queues[s][i].key = queues[s][j].key
            => queues[s][j].at - queues[s][i].at >= Ttl

\* A message the node accepts reaches every session joined at that moment,
\* full queues included; only one session, the publisher, may go without.
AcceptedReachesSubscribers ==
    [][\A k \in DOMAIN dedup'.entries \ DOMAIN dedup.entries :
          LET missed == {s \in Subscribers(k.channel) :
                            queues'[s] = <<>> \/ queues'[s][Len(queues'[s])].key # k}
          IN  Cardinality(missed) <= IF k.source = LocalPeer THEN 1 ELSE 0]_vars

\* `set_bound`: "A queue over its new bound simply refuses pushes until it
\* drains under it": what is in such a queue is not replaced by a push.
OverfullQueueRefuses ==
    [][\A s \in DOMAIN queues \cap DOMAIN queues' :
          Len(queues[s]) > bound =>
              \E n \in 1..Len(queues[s]) + 1 : queues'[s] = SubSeq(queues[s], n, Len(queues[s]))]_vars
=============================================================================
