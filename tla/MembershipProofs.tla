-------------------------- MODULE MembershipProofs --------------------------
(***************************************************************************)
(* Proofs about Broadcast and Membership, for every set of channels,       *)
(* sessions and peers, every bound of the queues and every capacity of the *)
(* command channel: the mesh follows the registry, what is accepted        *)
(* reaches every session once, the sessions implement the broadcast        *)
(* plane's specification, every join is accounted for, and an answered     *)
(* join holds.                                                             *)
(***************************************************************************)
EXTENDS Membership, TLAPS

-----------------------------------------------------------------------------
(* What the proofs use of finite sets. The lemmas below take these facts as  *)
(* a hypothesis, and the theorems at the end of the module discharge it from *)
(* the library's theorems (CountingHolds).                                   *)

Counting ==
    /\ \A S : IsFiniteSet(S) => Cardinality(S) \in Nat
    /\ IsFiniteSet({}) /\ Cardinality({}) = 0
    /\ \A x : IsFiniteSet({x}) /\ Cardinality({x}) = 1
    /\ \A S, T : IsFiniteSet(S) /\ T \subseteq S =>
            /\ IsFiniteSet(T) /\ Cardinality(T) <= Cardinality(S)
            /\ Cardinality(T) = Cardinality(S) => S = T
    /\ \A S, x : IsFiniteSet(S) /\ x \notin S => Cardinality(S \cup {x}) = Cardinality(S) + 1
    /\ \A S : IsFiniteSet(S) =>
            /\ \E f : f \in Injection(1..Cardinality(S), S)
            /\ \A f \in Injection(1..Cardinality(S), S) : f \in Surjection(1..Cardinality(S), S)

LEMMA CountType ==
    ASSUME Counting, NEW S, IsFiniteSet(S)
    PROVE  Cardinality(S) \in Nat
BY Zenon DEF Counting

LEMMA CountNone ==
    ASSUME Counting
    PROVE  IsFiniteSet({}) /\ Cardinality({}) = 0
BY Zenon DEF Counting

LEMMA CountSubset ==
    ASSUME Counting, NEW S, IsFiniteSet(S), NEW T \in SUBSET S
    PROVE  /\ IsFiniteSet(T) /\ Cardinality(T) <= Cardinality(S)
           /\ Cardinality(T) = Cardinality(S) => S = T
BY Zenon DEF Counting

-----------------------------------------------------------------------------
(* The broadcast plane, for every set of channels, sessions and peers and    *)
(* every bound.                                                              *)

\* The strengthening: what is desired or joined is allowed in the mesh, so a
\* join the mesh refuses finds nothing to take back, and a channel is in the
\* registry only with sessions that joined it.
RegistryOK ==
    /\ desired \subseteq Channels \ NotAllowed
    /\ DOMAIN joins \subseteq Channels \ NotAllowed
    /\ joins \in [DOMAIN joins -> (SUBSET Sessions) \ {{}}]
    /\ ceiling \in Nat

BroadcastInv == RegistryOK /\ MeshFollowsRegistry /\ WithinCeiling

\* What an action does to the registry and to what follows it.
Follows == <<desired, joins, ceiling, known, mesh, DOMAIN queues>>

-----------------------------------------------------------------------------
LEMMA InitInv == Counting /\ Init => BroadcastInv
<1> SUFFICES ASSUME Counting, Init PROVE BroadcastInv
  BY Zenon
<1> USE BroadcastAssumption DEF Init, EmptyMap
<1>1. RegistryOK
  BY Zenon DEF RegistryOK
<1>2. MeshFollowsRegistry
  BY Zenon DEF MeshFollowsRegistry, Backed, HoldsAny
<1>3. WithinCeiling
  BY CountNone DEF WithinCeiling, Backed
<1> QED BY <1>1, <1>2, <1>3, Zenon DEF BroadcastInv

\* A step that leaves the registry and what follows it alone.
LEMMA QuietInv == BroadcastInv /\ UNCHANGED Follows => BroadcastInv'
BY Zenon DEF BroadcastInv, Follows, RegistryOK, MeshFollowsRegistry, WithinCeiling, Backed, HoldsAny

\* The sessions of every channel after a leave: the session is out of this
\* one, and every other session and channel is as before.
LEMMA WithoutJoinIs ==
    ASSUME RegistryOK, NEW c, NEW s, NEW j, j = WithoutJoin(c, s)
    PROVE  /\ Subscribers(c) \subseteq {s} => DOMAIN j = DOMAIN joins \ {c}
           /\ ~(Subscribers(c) \subseteq {s}) => DOMAIN j = DOMAIN joins
           /\ j \in [DOMAIN j -> (SUBSET Sessions) \ {{}}]
           /\ c \in DOMAIN j => j[c] = joins[c] \ {s}
           /\ \A d \in DOMAIN joins \ {c} : d \in DOMAIN j /\ j[d] = joins[d]
<1>1. CASE Subscribers(c) \subseteq {s}
  BY <1>1, Zenon DEF WithoutJoin, MapDrop, RegistryOK
<1>2. CASE ~(Subscribers(c) \subseteq {s})
  <2>1. c \in DOMAIN joins /\ Subscribers(c) = joins[c]
    BY <1>2, Zenon DEF Subscribers
  <2>2. j = [joins EXCEPT ![c] = @ \ {s}]
    BY <1>2, Zenon DEF WithoutJoin
  <2>3. joins[c] \ {s} \in (SUBSET Sessions) \ {{}}
    BY <1>2, <2>1, Zenon DEF RegistryOK
  <2> QED BY <1>2, <2>1, <2>2, <2>3, Zenon DEF RegistryOK
<1> QED BY <1>1, <1>2, Zenon

-----------------------------------------------------------------------------
(* The actions on the registry. *)

LEMMA ConfigureInv ==
    ASSUME Counting, BroadcastInv, NEW want \in Wanted, NEW cap, NEW size,
           ConfigureBroadcast(want, cap, size)
    PROVE  BroadcastInv'
<1> DEFINE applied    == want \ NotAllowed
           remembered == known \cup applied \cup (want \cap DOMAIN joins)
<1>1. /\ desired' = applied /\ ceiling' = cap /\ joins' = joins /\ queues' = queues
      /\ known' = remembered \ Unheld(remembered, applied)
      /\ mesh' = (mesh \cup applied) \ Unheld(remembered, applied)
      /\ cap \in 1..MaxSubscriptions /\ Cardinality(Backed(want, joins)) <= cap
  BY Zenon DEF ConfigureBroadcast
<1>2. want \subseteq Channels /\ MaxSubscriptions \in Nat /\ IsFiniteSet(Channels)
  BY BroadcastAssumption, Zenon
<1>3. RegistryOK'
  BY <1>1, <1>2 DEF BroadcastInv, RegistryOK
<1>4. MeshFollowsRegistry'
  BY <1>1, Zenon DEF BroadcastInv, MeshFollowsRegistry, Unheld, Backed, HoldsAny
<1>5. WithinCeiling'
  <2>1. Backed(desired', joins') \subseteq Backed(want, joins)
    BY <1>1, Zenon DEF Backed
  <2>2. IsFiniteSet(Backed(want, joins))
    BY <1>2, CountSubset, Zenon DEF Backed, BroadcastInv, RegistryOK
  <2>3. Cardinality(Backed(desired', joins')) <= Cardinality(Backed(want, joins))
    BY <2>1, <2>2, CountSubset, Zenon
  <2>4. /\ Cardinality(Backed(desired', joins')) \in Nat
        /\ Cardinality(Backed(want, joins)) \in Nat
    BY <2>1, <2>2, CountSubset, CountType, Zenon
  <2> QED BY <1>1, <1>2, <2>3, <2>4 DEF WithinCeiling
<1> QED BY <1>3, <1>4, <1>5, Zenon DEF BroadcastInv

LEMMA JoinInv ==
    ASSUME Counting, BroadcastInv, NEW c \in Channels, NEW s \in Sessions, Join(c, s)
    PROVE  BroadcastInv'
<1>1. /\ joins' = MapPut(joins, c, Subscribers(c) \cup {s})
      /\ known' = known \cup {c} /\ mesh' = mesh \cup {c}
      /\ queues' = IF s \in DOMAIN queues THEN queues ELSE MapPut(queues, s, <<>>)
      /\ desired' = desired /\ ceiling' = ceiling
      /\ c \notin NotAllowed /\ ~JoinDenied(c, s)
  BY Zenon DEF Join
<1>2. Subscribers(c) \subseteq Sessions
  BY Zenon DEF Subscribers, BroadcastInv, RegistryOK
<1>3. /\ DOMAIN joins' = DOMAIN joins \cup {c}
      /\ joins'[c] = Subscribers(c) \cup {s}
      /\ \A d \in DOMAIN joins \ {c} : joins'[d] = joins[d]
      /\ joins' \in [DOMAIN joins' -> (SUBSET Sessions) \ {{}}]
  <2>1. DOMAIN joins' = DOMAIN joins \cup {c}
    BY <1>1, Zenon DEF MapPut
  <2>2. joins'[c] = Subscribers(c) \cup {s} /\ \A d \in DOMAIN joins \ {c} : joins'[d] = joins[d]
    BY <1>1, Zenon DEF MapPut
  <2>3. \A d \in DOMAIN joins' : joins'[d] \in (SUBSET Sessions) \ {{}}
    BY <1>2, <2>1, <2>2 DEF BroadcastInv, RegistryOK
  <2>4. joins' = [d \in DOMAIN joins' |-> joins'[d]]
    BY <1>1, Zenon DEF MapPut
  <2> QED BY <2>1, <2>2, <2>3, <2>4, Zenon
<1>4. RegistryOK'
  BY <1>1, <1>3, Zenon DEF BroadcastInv, RegistryOK
<1>5. \A r \in Sessions : HoldsAny(joins', r) <=> HoldsAny(joins, r) \/ r = s
  BY <1>3, Zenon DEF HoldsAny, Subscribers
<1>6. DOMAIN queues' = DOMAIN queues \cup {s}
  BY <1>1, Zenon DEF MapPut
<1>7. MeshFollowsRegistry'
  BY <1>1, <1>3, <1>5, <1>6, Zenon DEF BroadcastInv, MeshFollowsRegistry, Backed
<1>8. WithinCeiling'
  <2>1. Backed(desired', joins') = Backed(desired, joins) \cup {c}
    BY <1>1, <1>3, Zenon DEF Backed
  <2>2. IsFiniteSet(Backed(desired, joins))
    BY BroadcastAssumption, CountSubset, Zenon DEF Backed, BroadcastInv, RegistryOK
  <2>3. CASE c \in Backed(desired, joins)
    BY <1>1, <2>1, <2>3, Zenon DEF WithinCeiling, BroadcastInv
  <2>4. CASE c \notin Backed(desired, joins)
    <3>1. ~(Cardinality(Backed(desired, joins)) >= ceiling)
      BY <1>1, <2>4, Zenon DEF JoinDenied, Backed
    <3>2. Cardinality(Backed(desired', joins')) = Cardinality(Backed(desired, joins)) + 1
      BY <2>1, <2>2, <2>4, Zenon DEF Counting
    <3> QED BY <1>1, <2>2, <3>1, <3>2, CountType DEF WithinCeiling, BroadcastInv, RegistryOK
  <2> QED BY <2>3, <2>4, Zenon
<1> QED BY <1>4, <1>7, <1>8, Zenon DEF BroadcastInv

\* A join the mesh refuses changes nothing: nobody had joined the channel.
LEMMA JoinRefusedInv ==
    ASSUME BroadcastInv, NEW c, NEW s, JoinRefused(c, s)
    PROVE  BroadcastInv' /\ joins' = joins
<1>1. c \in NotAllowed /\ c \notin DOMAIN joins /\ c \notin desired
  BY Zenon DEF JoinRefused, BroadcastInv, RegistryOK
<1>2. WithoutJoin(c, s) = joins
  BY <1>1, Zenon DEF WithoutJoin, Subscribers, MapDrop, BroadcastInv, RegistryOK
<1>3. /\ joins' = joins /\ desired' = desired /\ ceiling' = ceiling
      /\ mesh' = mesh /\ queues' = queues
      /\ known' = IF c \in Backed(desired, joins') THEN known \cup {c} ELSE known \ {c}
  BY <1>2, Zenon DEF JoinRefused
<1>4. known' = known
  BY <1>1, <1>3, Zenon DEF Backed, BroadcastInv, MeshFollowsRegistry
<1> QED BY <1>3, <1>4, QuietInv, Zenon DEF Follows

LEMMA LeaveInv ==
    ASSUME Counting, BroadcastInv, NEW c, NEW s, Leave(c, s)
    PROVE  BroadcastInv'
<1>1. /\ joins' = WithoutJoin(c, s)
      /\ queues' = IF HoldsAny(joins', s) THEN queues ELSE MapDrop(queues, {s})
      /\ known' = known \ ({c} \ Backed(desired, joins'))
      /\ mesh' = mesh \ ({c} \ Backed(desired, joins'))
      /\ desired' = desired /\ ceiling' = ceiling
  BY Zenon DEF Leave
<1>2. RegistryOK
  BY Zenon DEF BroadcastInv
<1>3. /\ Subscribers(c) \subseteq {s} => DOMAIN joins' = DOMAIN joins \ {c}
      /\ ~(Subscribers(c) \subseteq {s}) => DOMAIN joins' = DOMAIN joins
      /\ joins' \in [DOMAIN joins' -> (SUBSET Sessions) \ {{}}]
      /\ c \in DOMAIN joins' => joins'[c] = joins[c] \ {s}
      /\ \A d \in DOMAIN joins \ {c} : d \in DOMAIN joins' /\ joins'[d] = joins[d]
  BY <1>1, <1>2, WithoutJoinIs, Zenon
<1>4. RegistryOK'
  BY <1>1, <1>2, <1>3, Zenon DEF RegistryOK
<1>5. \A r \in Sessions \ {s} : HoldsAny(joins', r) <=> HoldsAny(joins, r)
  <2> TAKE r \in Sessions \ {s}
  <2>1. ASSUME NEW d \in DOMAIN joins, r \in joins[d]
        PROVE  d \in DOMAIN joins' /\ r \in joins'[d]
    BY <1>3, <2>1, Zenon DEF Subscribers
  <2>2. ASSUME NEW d \in DOMAIN joins', r \in joins'[d]
        PROVE  d \in DOMAIN joins /\ r \in joins[d]
    BY <1>3, <2>2, Zenon
  <2> QED BY <2>1, <2>2, Zenon DEF HoldsAny
<1>6. HoldsAny(joins', s) => HoldsAny(joins, s)
  BY <1>3, Zenon DEF HoldsAny
<1>7. DOMAIN queues' = IF HoldsAny(joins', s) THEN DOMAIN queues ELSE DOMAIN queues \ {s}
  BY <1>1, Zenon DEF MapDrop
<1>8. MeshFollowsRegistry'
  <2>1. mesh' = Backed(desired', joins') /\ known' = mesh'
    BY <1>1, <1>3, Zenon DEF BroadcastInv, MeshFollowsRegistry, Backed
  <2>2. DOMAIN queues' = {r \in Sessions : HoldsAny(joins', r)}
    BY <1>5, <1>6, <1>7, Zenon DEF BroadcastInv, MeshFollowsRegistry
  <2> QED BY <2>1, <2>2, Zenon DEF MeshFollowsRegistry
<1>9. WithinCeiling'
  <2>1. Backed(desired', joins') \subseteq Backed(desired, joins)
    BY <1>1, <1>3, Zenon DEF Backed
  <2>2. IsFiniteSet(Backed(desired, joins))
    BY BroadcastAssumption, CountSubset, Zenon DEF Backed, BroadcastInv, RegistryOK
  <2>3. /\ Cardinality(Backed(desired', joins')) <= Cardinality(Backed(desired, joins))
        /\ Cardinality(Backed(desired', joins')) \in Nat
        /\ Cardinality(Backed(desired, joins)) \in Nat
    BY <2>1, <2>2, CountSubset, CountType, Zenon
  <2> QED BY <1>1, <2>3 DEF WithinCeiling, BroadcastInv, RegistryOK
<1> QED BY <1>4, <1>8, <1>9, Zenon DEF BroadcastInv

-----------------------------------------------------------------------------
\* Delivering a message opens and closes no queue.
LEMMA AdmitInv ==
    ASSUME NEW source, NEW c, NEW id, NEW print, NEW exclude,
           Admit(source, c, id, print, exclude)
    PROVE  DOMAIN queues' = DOMAIN queues
BY Zenon DEF Admit, PushTo

LEMMA NextInv == Counting /\ BroadcastInv /\ [Next]_vars => BroadcastInv'
<1> SUFFICES ASSUME Counting, BroadcastInv, [Next]_vars PROVE BroadcastInv'
  BY Zenon
<1>1. ASSUME NEW want \in Wanted, NEW cap, NEW size, ConfigureBroadcast(want, cap, size)
      PROVE  BroadcastInv'
  BY <1>1, ConfigureInv, Zenon
<1>2. ASSUME NEW want, NEW cap, ConfigureDenied(want, cap)
      PROVE  BroadcastInv'
  BY <1>2, QuietInv, Zenon DEF ConfigureDenied, vars, Follows
<1>3. ASSUME NEW c \in Channels, NEW s \in Sessions, Join(c, s) \/ JoinRefused(c, s) \/ Leave(c, s)
      PROVE  BroadcastInv'
  BY <1>3, JoinInv, JoinRefusedInv, LeaveInv, Zenon
<1>4. ASSUME NEW c, NEW s, NEW id, NEW print, Publish(c, s, id, print)
      PROVE  BroadcastInv'
  <2>1. DOMAIN queues' = DOMAIN queues
    BY <1>4, AdmitInv, Zenon DEF Publish
  <2>2. c \in known
    BY <1>4, Zenon DEF Publish, MayPublish, Subscribers, BroadcastInv, MeshFollowsRegistry, Backed
  <2>3. UNCHANGED Follows
    BY <1>4, <2>1, <2>2, Zenon DEF Publish, Follows, registry
  <2> QED BY <2>3, QuietInv, Zenon
<1>5. ASSUME NEW source, NEW c, NEW id, NEW print, HandleBroadcast(source, c, id, print)
      PROVE  BroadcastInv'
  <2>1. DOMAIN queues' = DOMAIN queues
    BY <1>5, AdmitInv, Zenon DEF HandleBroadcast
  <2>2. UNCHANGED Follows
    BY <1>5, <2>1, Zenon DEF HandleBroadcast, Follows, registry, topics
  <2> QED BY <2>2, QuietInv, Zenon
<1>6. ASSUME NEW s, NEW max, DrainSession(s, max)
      PROVE  BroadcastInv'
  BY <1>6, QuietInv, Zenon DEF DrainSession, Follows, registry, topics
<1>7. CASE (\E peers \in SUBSET Sources : AdoptTrust(peers)) \/ StartDraining \/ Tick
  BY <1>7, QuietInv, Zenon DEF AdoptTrust, StartDraining, Tick, Follows, registry, topics
<1>8. CASE UNCHANGED vars
  BY <1>8, QuietInv, Zenon DEF vars, Follows
<1> QED BY <1>1, <1>2, <1>3, <1>4, <1>5, <1>6, <1>7, <1>8, Zenon DEF Next

-----------------------------------------------------------------------------
(* The session queues and the cache. *)

Delivered == [key : Keys, print : Prints, at : Nat]

QueuesOK == now \in Nat /\ \A s \in DOMAIN queues : queues[s] \in Seq(Delivered)

\* A queue with its oldest event gone.
Shifted(rest, q) ==
    /\ rest \in Seq(Delivered)
    /\ \A i \in 1..Len(rest) : i + 1 \in 1..Len(q) /\ rest[i] = q[i + 1]

LEMMA OldestGone ==
    ASSUME NEW q \in Seq(Delivered)
    PROVE  /\ Shifted(SubSeq(q, 1 + 1, Len(q)), q)
           /\ q # <<>> => Shifted(Tail(q), q)
<1>1. /\ SubSeq(q, 1 + 1, Len(q)) \in Seq(Delivered)
      /\ Len(SubSeq(q, 1 + 1, Len(q))) = IF Len(q) = 0 THEN 0 ELSE Len(q) - 1
      /\ \A i \in 1..(Len(q) - 1) : SubSeq(q, 1 + 1, Len(q))[i] = q[i + 1]
  OBVIOUS
<1>2. q # <<>> => /\ Tail(q) \in Seq(Delivered)
                  /\ Len(Tail(q)) = Len(q) - 1
                  /\ \A i \in 1..(Len(q) - 1) : Tail(q)[i] = q[i + 1]
  OBVIOUS
<1>3. Shifted(SubSeq(q, 1 + 1, Len(q)), q)
  BY <1>1 DEF Shifted
<1>4. ASSUME q # <<>> PROVE Shifted(Tail(q), q)
  BY <1>2, <1>4 DEF Shifted
<1> QED BY <1>3, <1>4, Zenon

LEMMA AppendIsAdded ==
    ASSUME NEW q \in Seq(Delivered), NEW e \in Delivered
    PROVE  /\ Append(q, e) \in Seq(Delivered) /\ Append(q, e) # <<>>
           /\ Len(Append(q, e)) = Len(q) + 1
           /\ Append(q, e)[Len(q) + 1] = e
           /\ \A i \in 1..Len(q) : Append(q, e)[i] = q[i]
OBVIOUS

\* A push ends the queue with its event, before it the queue or its tail.
LEMMA PushIs ==
    ASSUME NEW q \in Seq(Delivered), NEW e \in Delivered
    PROVE  \E r \in Seq(Delivered) : Push(q, e) = Append(r, e) /\ (r = q \/ Shifted(r, q))
<1>1. CASE Len(q) >= bound /\ q # <<>>
  <2>1. Push(q, e) = Append(Tail(q), e) /\ Shifted(Tail(q), q)
    BY <1>1, OldestGone, Zenon DEF Push
  <2> QED BY <2>1, Zenon DEF Shifted
<1>2. CASE ~(Len(q) >= bound /\ q # <<>>)
  BY <1>2, Zenon DEF Push
<1> QED BY <1>1, <1>2, Zenon

\* An event a step of the plane delivers.
LEMMA EventType ==
    ASSUME NEW source \in Sources \cup {LocalPeer}, NEW c \in Channels, NEW id \in Ids,
           NEW print \in Prints, now \in Nat
    PROVE  LET key == [source |-> source, channel |-> c, id |-> id]
           IN  key \in Keys /\ [key |-> key, print |-> print, at |-> now] \in Delivered
BY Zenon DEF Keys, Delivered

\* A step either admits one message, or leaves the cache alone and queues
\* nothing: queues are opened empty, closed, left alone or drained.
Thinned ==
    /\ UNCHANGED dedup /\ now' \in {now, now + 1}
    /\ \A s \in DOMAIN queues' :
          \/ queues'[s] = <<>>
          \/ s \in DOMAIN queues /\ (queues'[s] = queues[s] \/ Shifted(queues'[s], queues[s]))

Admits(source, c, id, print, exclude) ==
    /\ source \in Sources \cup {LocalPeer} /\ c \in Channels /\ id \in Ids /\ print \in Prints
    /\ Admit(source, c, id, print, exclude)
    /\ \/ source = LocalPeer /\ \E s \in Sessions : exclude = {s}
       \/ source # LocalPeer /\ exclude = {}
    /\ UNCHANGED <<joins, now>>

LEMMA StepIs ==
    ASSUME QueuesOK, [Next]_vars
    PROVE  \/ Thinned
           \/ \E source, c, id, print, exclude : Admits(source, c, id, print, exclude)
<1>1. ASSUME UNCHANGED <<dedup, queues>>, now' \in {now, now + 1} PROVE Thinned
  BY <1>1, Zenon DEF Thinned
<1>2. ASSUME NEW c, NEW s, Join(c, s) PROVE Thinned
  BY <1>2, Zenon DEF Join, Thinned, MapPut
<1>3. ASSUME NEW c, NEW s, Leave(c, s) PROVE Thinned
  BY <1>3, Zenon DEF Leave, Thinned, MapDrop
<1>4. ASSUME NEW s, DrainSession(s, 1) PROVE Thinned
  <2>1. /\ s \in DOMAIN queues /\ UNCHANGED <<dedup, now>>
        /\ queues' = [queues EXCEPT ![s] = SubSeq(queues[s], 1 + 1, Len(queues[s]))]
    BY <1>4, Zenon DEF DrainSession
  <2>2. Shifted(SubSeq(queues[s], 1 + 1, Len(queues[s])), queues[s])
    BY <2>1, OldestGone, Zenon DEF QueuesOK
  <2>3. /\ DOMAIN queues' = DOMAIN queues
        /\ queues'[s] = SubSeq(queues[s], 1 + 1, Len(queues[s]))
        /\ \A r \in DOMAIN queues \ {s} : queues'[r] = queues[r]
    BY <2>1, Zenon
  <2> QED BY <2>1, <2>2, <2>3, Zenon DEF Thinned
<1>5. ASSUME NEW c \in Channels, NEW s \in Sessions, NEW id \in Ids, NEW print \in Prints,
             Publish(c, s, id, print)
      PROVE  Admits(LocalPeer, c, id, print, {s})
  BY <1>5, Zenon DEF Publish, Admits, registry
<1>6. ASSUME NEW source \in Sources, NEW c \in Channels, NEW id \in Ids, NEW print \in Prints,
             HandleBroadcast(source, c, id, print)
      PROVE  Admits(source, c, id, print, {})
  BY <1>6, BroadcastAssumption, Zenon DEF HandleBroadcast, Admits, registry
<1>7. CASE UNCHANGED vars
  BY <1>1, <1>7, Zenon DEF vars
<1>8. ASSUME NEW want, NEW cap, \/ \E size : ConfigureBroadcast(want, cap, size)
                                \/ ConfigureDenied(want, cap)
      PROVE  Thinned
  BY <1>1, <1>8, Zenon DEF ConfigureBroadcast, ConfigureDenied, vars
<1>9. ASSUME NEW c, NEW s, JoinRefused(c, s) PROVE Thinned
  BY <1>1, <1>9, Zenon DEF JoinRefused
<1>10. CASE (\E peers \in SUBSET Sources : AdoptTrust(peers)) \/ StartDraining \/ Tick
  BY <1>1, <1>10, Zenon DEF AdoptTrust, StartDraining, Tick
<1> QED BY <1>2, <1>3, <1>4, <1>5, <1>6, <1>7, <1>8, <1>9, <1>10, Zenon DEF Next

LEMMA QueuesStep == QueuesOK /\ [Next]_vars => QueuesOK'
<1> SUFFICES ASSUME QueuesOK, [Next]_vars PROVE QueuesOK'
  BY Zenon
<1>1. CASE Thinned
  <2>1. now' \in Nat
    BY <1>1 DEF Thinned, QueuesOK
  <2>2. ASSUME NEW s \in DOMAIN queues' PROVE queues'[s] \in Seq(Delivered)
    <3>1. <<>> \in Seq(Delivered)
      OBVIOUS
    <3> QED BY <1>1, <2>2, <3>1, Zenon DEF Thinned, QueuesOK, Shifted
  <2> QED BY <2>1, <2>2, Zenon DEF QueuesOK
<1>2. ASSUME NEW source, NEW c, NEW id, NEW print, NEW exclude,
             Admits(source, c, id, print, exclude)
      PROVE  QueuesOK'
  <2> DEFINE key == [source |-> source, channel |-> c, id |-> id]
             event == [key |-> key, print |-> print, at |-> now]
  <2>1. now \in Nat /\ now' = now /\ event \in Delivered
    BY <1>2, EventType, Zenon DEF Admits, QueuesOK
  <2>2. queues' = queues \/ queues' = PushTo(Subscribers(c) \ exclude, event)
    BY <1>2, Zenon DEF Admits, Admit
  <2> HIDE DEF event
  <2>3. \A s \in DOMAIN queues : Push(queues[s], event) \in Seq(Delivered)
    <3> TAKE s \in DOMAIN queues
    <3>1. queues[s] \in Seq(Delivered)
      BY Zenon DEF QueuesOK
    <3>2. PICK r \in Seq(Delivered) : Push(queues[s], event) = Append(r, event)
      BY <2>1, <3>1, PushIs, Zenon
    <3> QED BY <2>1, <3>2, AppendIsAdded, Zenon
  <2>4. \A s \in DOMAIN queues' :
            s \in DOMAIN queues /\ queues'[s] \in {queues[s], Push(queues[s], event)}
    BY <2>2, Zenon DEF PushTo
  <2> QED BY <2>1, <2>3, <2>4, Zenon DEF QueuesOK
<1> QED BY <1>1, <1>2, StepIs, Zenon

\* Every queue holds a sequence of messages of the plane.
LEMMA QueuesInvariant == Spec => []QueuesOK
<1>1. Init => QueuesOK
  BY DEF Init, QueuesOK, EmptyMap
<1> QED BY <1>1, QueuesStep, PTL DEF Spec

\* A message that is refused leaves the cache expired and the queues alone; one
\* that is accepted is recorded after a second expiry and pushed.
Passed == dedup'.entries = Expire(dedup, now).entries /\ queues' = queues

Taken(key, event, to) ==
    LET live == Expire(dedup, now)
        again == Expire(live, now)
    IN  /\ key \notin DOMAIN live.entries
        /\ DOMAIN dedup'.entries = (DOMAIN again.entries \ Overflow(again)) \cup {key}
        /\ dedup'.entries[key].at = now
        /\ \A k \in DOMAIN again.entries \ (Overflow(again) \cup {key}) :
              dedup'.entries[k] = again.entries[k]
        /\ queues' = PushTo(to, event)

LEMMA AdmitIs ==
    ASSUME NEW source, NEW c, NEW id, NEW print, NEW exclude,
           Admit(source, c, id, print, exclude)
    PROVE  LET key == [source |-> source, channel |-> c, id |-> id]
               event == [key |-> key, print |-> print, at |-> now]
           IN  Passed \/ Taken(key, event, Subscribers(c) \ exclude)
<1> DEFINE key == [source |-> source, channel |-> c, id |-> id]
           event == [key |-> key, print |-> print, at |-> now]
           live == Expire(dedup, now)
           again == Expire(live, now)
           fresh == Verdict(live, key, print) = "Fresh"
           after == AfterAdmit(dedup, key, print, now)
           new == [route |-> "Broadcast", print |-> print, at |-> now]
<1>1. /\ dedup' = IF fresh THEN RecordAccepted(after, key, "Broadcast", print, now) ELSE after
      /\ queues' = IF fresh THEN PushTo(Subscribers(c) \ exclude, event) ELSE queues
  BY Zenon DEF Admit
<1>2. after = IF Verdict(live, key, print) = "DuplicateAccepted" THEN Touch(live, key) ELSE live
  BY Zenon DEF AfterAdmit
<1>3. live = [entries |-> live.entries, order |-> live.order]
  BY Zenon DEF Expire
<1>4. /\ DOMAIN again.entries \subseteq DOMAIN live.entries
      /\ again = [entries |-> again.entries, order |-> again.order]
  BY Zenon DEF Expire, MapDrop
<1> HIDE DEF live, key, event, after
<1>5. Touch(live, key).entries = live.entries
  BY <1>3, Zenon DEF Touch
<1>6. ASSUME ~fresh PROVE Passed
  BY <1>1, <1>2, <1>5, <1>6, Zenon DEF live, Passed
<1>7. ASSUME fresh PROVE Taken(key, event, Subscribers(c) \ exclude)
  <2>1. key \notin DOMAIN live.entries
    BY <1>7, Zenon DEF Verdict
  <2>2. after = live
    BY <1>2, <1>7, Zenon
  <2>3. dedup' = RecordAccepted(live, key, "Broadcast", print, now)
    BY <1>1, <1>7, <2>2, Zenon
  <2>4. dedup' = [entries |-> MapPut(MapDrop(again.entries, Overflow(again)), key, new),
                  order |-> Append(Without(again.order, Overflow(again)), key)]
    BY <1>4, <2>1, <2>3, Zenon DEF RecordAccepted
  <2> HIDE DEF again
  <2>5. dedup'.entries = MapPut(MapDrop(again.entries, Overflow(again)), key, new)
    BY <2>4, Zenon
  <2>6. /\ DOMAIN dedup'.entries = (DOMAIN again.entries \ Overflow(again)) \cup {key}
        /\ dedup'.entries[key].at = now
        /\ \A k \in DOMAIN again.entries \ (Overflow(again) \cup {key}) :
              dedup'.entries[k] = again.entries[k]
    BY <2>5 DEF MapPut, MapDrop
  <2> QED BY <1>1, <1>7, <2>1, <2>6, Zenon DEF live, again, Taken
<1> QED BY <1>6, <1>7, Zenon DEF key, event

\* A session that gets a message has it at the end of its queue.
LEMMA ReachStep ==
    Counting /\ BroadcastInv /\ QueuesOK /\ [Next]_vars =>
        [\A k \in DOMAIN dedup'.entries \ DOMAIN dedup.entries :
            LET missed == {s \in Subscribers(k.channel) :
                              queues'[s] = <<>> \/ queues'[s][Len(queues'[s])].key # k}
            IN  Cardinality(missed) <= IF k.source = LocalPeer THEN 1 ELSE 0]_vars
<1> SUFFICES ASSUME Counting, BroadcastInv, QueuesOK, [Next]_vars,
                    NEW k \in DOMAIN dedup'.entries \ DOMAIN dedup.entries
             PROVE  LET missed == {s \in Subscribers(k.channel) :
                              queues'[s] = <<>> \/ queues'[s][Len(queues'[s])].key # k}
                    IN  Cardinality(missed) <= IF k.source = LocalPeer THEN 1 ELSE 0
  BY Zenon
<1> DEFINE missed == {s \in Subscribers(k.channel) :
                         queues'[s] = <<>> \/ queues'[s][Len(queues'[s])].key # k}
<1>1. PICK source, c, id, print, exclude : Admits(source, c, id, print, exclude)
  BY StepIs, Zenon DEF Thinned
<1> DEFINE key == [source |-> source, channel |-> c, id |-> id]
           event == [key |-> key, print |-> print, at |-> now]
           live == Expire(dedup, now)
<1>2. DOMAIN live.entries \subseteq DOMAIN dedup.entries
  BY Zenon DEF Expire, MapDrop
<1>3. DOMAIN Expire(live, now).entries \subseteq DOMAIN dedup.entries
  BY <1>2, Zenon DEF Expire, MapDrop
<1>4. k = key /\ queues' = PushTo(Subscribers(c) \ exclude, event)
  <2>1. Passed \/ Taken(key, event, Subscribers(c) \ exclude)
    BY <1>1, AdmitIs, Zenon DEF Admits
  <2> QED BY <1>2, <1>3, <2>1, Zenon DEF Passed, Taken
<1>5. event \in Delivered
  BY <1>1, EventType, Zenon DEF Admits, QueuesOK
<1>6. k.source = source /\ k.channel = c
  BY <1>4, Zenon
<1>7. event.key = k
  BY <1>4, Zenon
<1> HIDE DEF event, key
<1>8. Subscribers(c) \subseteq DOMAIN queues
  BY Zenon DEF Subscribers, BroadcastInv, RegistryOK, MeshFollowsRegistry, HoldsAny
<1>9. ASSUME NEW s \in Subscribers(c) \ exclude PROVE s \notin missed
  <2>1. queues[s] \in Seq(Delivered) /\ queues'[s] = Push(queues[s], event)
    BY <1>4, <1>8, Zenon DEF PushTo, QueuesOK
  <2>2. PICK r \in Seq(Delivered) : Push(queues[s], event) = Append(r, event)
    BY <1>5, <2>1, PushIs, Zenon
  <2>3. queues'[s] # <<>> /\ queues'[s][Len(queues'[s])] = event
    BY <1>5, <2>1, <2>2, AppendIsAdded
  <2> QED BY <1>7, <2>3, Zenon
<1>10. missed \subseteq exclude
  BY <1>6, <1>9, Zenon
<1> HIDE DEF missed
<1>11. CASE source = LocalPeer
  <2>1. PICK s \in Sessions : exclude = {s}
    BY <1>1, <1>11, Zenon DEF Admits
  <2>2. missed \subseteq {s} /\ IsFiniteSet({s}) /\ Cardinality({s}) = 1
    BY <1>10, <2>1, Zenon DEF Counting
  <2>3. Cardinality(missed) <= 1
    BY <2>2, CountSubset
  <2> QED BY <1>6, <1>11, <2>3, Zenon DEF missed
<1>12. CASE source # LocalPeer
  <2>1. missed = {}
    BY <1>1, <1>10, <1>12, Zenon DEF Admits
  <2>2. Cardinality(missed) = 0
    BY <2>1, CountNone, Zenon
  <2> QED BY <1>6, <1>12, <2>2 DEF missed
<1> QED BY <1>11, <1>12, Zenon

-----------------------------------------------------------------------------
(* Once per session. *)

\* The cache has room for every key, so it forgets by time only.
CacheHoldsAll == IsFiniteSet(Keys) /\ Cardinality(Keys) <= MaxEntries

\* What is queued is remembered, as of then or a later acceptance, until its
\* lifetime has passed.
Recalled(x, entries, time) ==
    /\ x.at <= time
    /\ \/ time - x.at >= Ttl
       \/ x.key \in DOMAIN entries /\ entries[x.key].at >= x.at

Spaced(q) ==
    \A i, j \in 1..Len(q) : i < j /\ q[i].key = q[j].key => q[j].at - q[i].at >= Ttl

OnceOK(q, entries, time) == (\A i \in 1..Len(q) : Recalled(q[i], entries, time)) /\ Spaced(q)

EntriesOK(entries) ==
    DOMAIN entries \subseteq Keys /\ \A k \in DOMAIN entries : entries[k].at \in Nat

OnceInv ==
    /\ QueuesOK /\ EntriesOK(dedup.entries)
    /\ \A s \in DOMAIN queues : OnceOK(queues[s], dedup.entries, now)

LEMMA ExpireRecalls ==
    ASSUME NEW cache, EntriesOK(cache.entries), NEW time \in Nat
    PROVE  /\ EntriesOK(Expire(cache, time).entries)
           /\ \A x \in Delivered : Recalled(x, cache.entries, time)
                  => Recalled(x, Expire(cache, time).entries, time)
<1> DEFINE left == Expire(cache, time).entries
<1>1. /\ DOMAIN left = {k \in DOMAIN cache.entries : ~(time - cache.entries[k].at >= Ttl)}
      /\ \A k \in DOMAIN left : left[k] = cache.entries[k]
  BY Zenon DEF Expire, Expired, MapDrop
<1> HIDE DEF left
<1>2. EntriesOK(left)
  BY <1>1, Zenon DEF EntriesOK
<1>3. ASSUME NEW x \in Delivered, Recalled(x, cache.entries, time)
      PROVE  Recalled(x, left, time)
  <2>1. x.at \in Nat /\ Ttl \in Nat
    BY DedupAssumption, Zenon DEF Delivered
  <2> QED BY <1>1, <1>3, <2>1 DEF Recalled, EntriesOK
<1> QED BY <1>2, <1>3, Zenon DEF left

\* A cache that lacks a key has room for it.
LEMMA NothingOverflows ==
    ASSUME Counting, CacheHoldsAll, NEW cache, DOMAIN cache.entries \subseteq Keys,
           NEW k \in Keys, k \notin DOMAIN cache.entries
    PROVE  Overflow(cache) = {}
<1>1. /\ IsFiniteSet(DOMAIN cache.entries) /\ IsFiniteSet(Keys)
      /\ Cardinality(DOMAIN cache.entries) \in Nat /\ Cardinality(Keys) \in Nat
      /\ Cardinality(DOMAIN cache.entries) < Cardinality(Keys)
  BY CountSubset, CountType DEF CacheHoldsAll
<1>2. ~(Cardinality(DOMAIN cache.entries) >= MaxEntries)
  BY <1>1, DedupAssumption DEF CacheHoldsAll
<1> QED BY <1>2 DEF Overflow

LEMMA ShiftedOnce ==
    ASSUME NEW q \in Seq(Delivered), NEW r, Shifted(r, q), NEW entries, NEW time,
           OnceOK(q, entries, time)
    PROVE  OnceOK(r, entries, time)
<1>1. \A i \in 1..Len(r) : i + 1 \in 1..Len(q) /\ r[i] = q[i + 1]
  BY Zenon DEF Shifted
<1>2. \A i \in 1..Len(r) : Recalled(r[i], entries, time)
  BY <1>1, Zenon DEF OnceOK
<1>3. Len(r) \in Nat /\ Len(q) \in Nat
  BY DEF Shifted
<1>4. Spaced(r)
  <2> SUFFICES ASSUME NEW i \in 1..Len(r), NEW j \in 1..Len(r), i < j, r[i].key = r[j].key
               PROVE  r[j].at - r[i].at >= Ttl
    BY Zenon DEF Spaced
  <2>1. i + 1 < j + 1
    BY <1>3
  <2> QED BY <1>1, <2>1, Zenon DEF OnceOK, Spaced
<1> QED BY <1>2, <1>4, Zenon DEF OnceOK

LEMMA AppendOnce ==
    ASSUME NEW q \in Seq(Delivered), NEW e \in Delivered, NEW entries, NEW time \in Nat,
           OnceOK(q, entries, time), Recalled(e, entries, time),
           \A i \in 1..Len(q) : q[i].key = e.key => e.at - q[i].at >= Ttl
    PROVE  OnceOK(Append(q, e), entries, time)
<1> DEFINE p == Append(q, e)
<1>1. /\ Len(p) = Len(q) + 1 /\ p[Len(q) + 1] = e /\ \A i \in 1..Len(q) : p[i] = q[i]
      /\ Len(q) \in Nat
  BY AppendIsAdded
<1> HIDE DEF p
<1>2. \A i \in 1..Len(p) : i \in 1..Len(q) \/ i = Len(q) + 1
  BY <1>1
<1>3. \A i \in 1..Len(p) : Recalled(p[i], entries, time)
  BY <1>1, <1>2, Zenon DEF OnceOK
<1>4. Spaced(p)
  <2> SUFFICES ASSUME NEW i \in 1..Len(p), NEW j \in 1..Len(p), i < j, p[i].key = p[j].key
               PROVE  p[j].at - p[i].at >= Ttl
    BY Zenon DEF Spaced
  <2>1. i \in 1..Len(q)
    BY <1>1
  <2>2. CASE j \in 1..Len(q)
    BY <1>1, <2>1, <2>2, Zenon DEF OnceOK, Spaced
  <2>3. CASE j = Len(q) + 1
    BY <1>1, <2>1, <2>3, Zenon
  <2> QED BY <1>2, <2>2, <2>3, Zenon
<1> QED BY <1>3, <1>4, Zenon DEF OnceOK, p

LEMMA OnceStep ==
    ASSUME CacheHoldsAll
    PROVE  Counting /\ OnceInv /\ [Next]_vars => OnceInv'
<1> SUFFICES ASSUME Counting, OnceInv, [Next]_vars PROVE OnceInv'
  BY Zenon
<1>1. QueuesOK /\ QueuesOK' /\ now \in Nat /\ Ttl \in Nat
  BY QueuesStep, DedupAssumption, Zenon DEF OnceInv, QueuesOK
<1>2. CASE Thinned
  <2>1. \A s \in DOMAIN queues' : OnceOK(queues'[s], dedup.entries, now)
    <3> TAKE s \in DOMAIN queues'
    <3>1. CASE queues'[s] = <<>>
      BY <3>1 DEF OnceOK, Spaced
    <3>2. CASE s \in DOMAIN queues /\ queues'[s] = queues[s]
      BY <3>2, Zenon DEF OnceInv
    <3>3. CASE s \in DOMAIN queues /\ Shifted(queues'[s], queues[s])
      BY <1>1, <3>3, ShiftedOnce, Zenon DEF OnceInv, QueuesOK
    <3> QED BY <1>2, <3>1, <3>2, <3>3, Zenon DEF Thinned
  <2>2. now' \in Nat /\ now' >= now /\ dedup' = dedup
    BY <1>1, <1>2 DEF Thinned
  <2>3. ASSUME NEW s \in DOMAIN queues' PROVE OnceOK(queues'[s], dedup'.entries, now')
    <3>1. queues'[s] \in Seq(Delivered)
      BY <1>1, Zenon DEF QueuesOK
    <3>2. \A i \in 1..Len(queues'[s]) : queues'[s][i] \in Delivered
      BY <3>1
    <3>3. \A x \in Delivered : x.at \in Nat
      BY Zenon DEF Delivered
    <3> QED BY <1>1, <2>1, <2>2, <3>2, <3>3 DEF OnceOK, Recalled
  <2> QED BY <1>1, <2>2, <2>3, Zenon DEF OnceInv
<1>3. ASSUME NEW source, NEW c, NEW id, NEW print, NEW exclude,
             Admits(source, c, id, print, exclude)
      PROVE  OnceInv'
  <2> DEFINE key == [source |-> source, channel |-> c, id |-> id]
             event == [key |-> key, print |-> print, at |-> now]
             live == Expire(dedup, now)
             again == Expire(live, now)
  <2>1. now' = now /\ key \in Keys /\ event \in Delivered
    BY <1>1, <1>3, EventType, Zenon DEF Admits
  <2>2. /\ EntriesOK(live.entries) /\ EntriesOK(again.entries)
        /\ \A x \in Delivered : Recalled(x, dedup.entries, now) => Recalled(x, live.entries, now)
        /\ \A x \in Delivered : Recalled(x, live.entries, now) => Recalled(x, again.entries, now)
    BY <1>1, ExpireRecalls, Zenon DEF OnceInv
  <2>3. /\ DOMAIN again.entries \subseteq DOMAIN live.entries
    BY Zenon DEF Expire, MapDrop
  <2>4. Passed \/ Taken(key, event, Subscribers(c) \ exclude)
    BY <1>3, AdmitIs, Zenon DEF Admits
  <2>5. event.key = key /\ event.at = now
    BY Zenon
  <2> HIDE DEF key, event, live, again
  <2>6. CASE Passed
    <3>1. ASSUME NEW s \in DOMAIN queues PROVE OnceOK(queues[s], live.entries, now)
      <4>1. queues[s] \in Seq(Delivered) /\ OnceOK(queues[s], dedup.entries, now)
        BY <1>1, Zenon DEF QueuesOK, OnceInv
      <4>2. \A i \in 1..Len(queues[s]) : queues[s][i] \in Delivered
        BY <4>1
      <4> QED BY <2>2, <4>1, <4>2, Zenon DEF OnceOK
    <3>2. dedup'.entries = live.entries /\ queues' = queues
      BY <2>6, Zenon DEF Passed, live
    <3> QED BY <1>1, <2>1, <2>2, <3>1, <3>2, Zenon DEF OnceInv
  <2>7. CASE Taken(key, event, Subscribers(c) \ exclude)
    <3> DEFINE entries == dedup'.entries
    <3>1. key \notin DOMAIN live.entries /\ queues' = PushTo(Subscribers(c) \ exclude, event)
      BY <2>7, Zenon DEF Taken, live
    <3>2. Overflow(again) = {}
      BY <2>1, <2>2, <2>3, <3>1, NothingOverflows, Zenon DEF EntriesOK
    <3>3. /\ DOMAIN entries = DOMAIN again.entries \cup {key}
          /\ entries[key].at = now
          /\ \A k \in DOMAIN again.entries \ {key} : entries[k] = again.entries[k]
      BY <2>7, <3>2, Zenon DEF Taken, live, again
    <3> HIDE DEF entries
    <3>4. EntriesOK(entries)
      BY <1>1, <2>1, <2>2, <3>3, Zenon DEF EntriesOK
    <3>5. \A x \in Delivered : Recalled(x, dedup.entries, now) => Recalled(x, entries, now)
      <4> SUFFICES ASSUME NEW x \in Delivered, Recalled(x, again.entries, now)
                   PROVE  Recalled(x, entries, now)
        BY <2>2, Zenon
      <4>1. x.at \in Nat
        BY Zenon DEF Delivered
      <4> QED BY <1>1, <3>3, <4>1, Zenon DEF Recalled
    <3>6. Recalled(event, entries, now)
      BY <1>1, <2>5, <3>3 DEF Recalled
    <3>7. ASSUME NEW x \in Delivered, Recalled(x, dedup.entries, now), x.key = key
          PROVE  now - x.at >= Ttl
      BY <2>2, <3>1, <3>7, Zenon DEF Recalled
    <3>8. ASSUME NEW q \in Seq(Delivered), OnceOK(q, dedup.entries, now)
          PROVE  OnceOK(q, entries, now) /\ OnceOK(Append(q, event), entries, now)
      <4>1. \A i \in 1..Len(q) : q[i] \in Delivered
        OBVIOUS
      <4>2. OnceOK(q, entries, now)
        BY <3>5, <3>8, <4>1, Zenon DEF OnceOK
      <4>3. \A i \in 1..Len(q) : q[i].key = event.key => event.at - q[i].at >= Ttl
        BY <2>5, <3>7, <3>8, <4>1, Zenon DEF OnceOK
      <4>4. OnceOK(Append(q, event), entries, now)
        BY <1>1, <2>1, <3>6, <4>2, <4>3, AppendOnce, Zenon
      <4> QED BY <4>2, <4>4, Zenon
    <3>9. ASSUME NEW s \in DOMAIN queues' PROVE OnceOK(queues'[s], entries, now)
      <4>1. s \in DOMAIN queues /\ (queues'[s] = queues[s] \/ queues'[s] = Push(queues[s], event))
        BY <3>1, <3>9, Zenon DEF PushTo
      <4>2. queues[s] \in Seq(Delivered) /\ OnceOK(queues[s], dedup.entries, now)
        BY <1>1, <4>1, Zenon DEF QueuesOK, OnceInv
      <4>3. PICK r \in Seq(Delivered) : /\ Push(queues[s], event) = Append(r, event)
                                        /\ r = queues[s] \/ Shifted(r, queues[s])
        BY <2>1, <4>2, PushIs, Zenon
      <4>4. OnceOK(r, dedup.entries, now)
        BY <4>2, <4>3, ShiftedOnce, Zenon
      <4> QED BY <3>8, <4>1, <4>2, <4>3, <4>4, Zenon
    <3> QED BY <1>1, <2>1, <3>4, <3>9, Zenon DEF OnceInv, entries
  <2> QED BY <2>4, <2>6, <2>7, Zenon
<1> QED BY <1>1, <1>2, <1>3, StepIs, Zenon

-----------------------------------------------------------------------------
(* The inductive invariant. What is queued for a session is judged by what *)
(* it will have come to once the queue has been run.                       *)

Commands ==
    [op : {"Join", "Leave"}, s : Sessions, c : Channels, heard : BOOLEAN]
        \cup [op : {"Release"}, s : Sessions, c : {NoChannel}, heard : {FALSE}]

Is(x, op, s, c) == x.op = op /\ x.s = s /\ x.c = c

\* A leave of the channel is queued for the session.
Leaves(q, s, c) == \E k \in DOMAIN q : Is(q[k], "Leave", s, c)

Member(j, s, c) == c \in DOMAIN j /\ s \in j[c]

\* The session may still be in the channel once the queue has been run.
Stays(q, j, s, c) ==
    \/ \E i \in DOMAIN q :
          /\ Is(q[i], "Join", s, c)
          /\ \A k \in DOMAIN q : k > i => ~Is(q[k], "Leave", s, c)
    \/ Member(j, s, c) /\ ~Leaves(q, s, c)

\* A command somebody waits for is the call under way, or the owed leave it
\* sends first, and the last one the session sent.
HeardOK(me, q, s) ==
    \A i \in DOMAIN q : q[i].s = s /\ q[i].heard =>
        /\ \/ me.at = "waiting" /\ q[i].op = me.op /\ q[i].c = me.c
           \/ me.at = "paying" /\ q[i].op = "Leave"
        /\ \A k \in DOMAIN q : k > i => q[k].s # s

\* What a session keeps, by where its call stands.
KeptOK(me) ==
    /\ me \in SessionState
    /\ me.at \in {"owing", "paying", "paid", "asking", "waiting", "ok", "err"} =>
          me.op \in {"Join", "Leave"} /\ me.c \in Channels
    /\ \A c, d \in me.owed : c = d
    /\ me.joined \cap me.owed = {}
    /\ me.at \in {"asking", "waiting", "ok", "err"} => me.owed = {}
    /\ me.at \notin {"closing", "ended"} => me.rest = <<>>
    /\ me.at = "closing" => Range(me.rest) \subseteq me.joined \cup me.owed
    /\ me.at = "ended" => me.joined = {} /\ me.owed = {}
    /\ me.firm \subseteq me.joined
    /\ me.at \in {"closing", "ended"} => me.firm = {}
    /\ me.op = "Leave" => me.c \notin me.firm

\* What stays is what the session kept, has yet to leave, or has asked for;
\* what it has left, or is leaving, does not stay.
StaysOK(me, q, j, s) ==
    /\ \A c \in Channels : Stays(q, j, s, c) =>
          \/ c \in me.joined \cup me.owed \cup Range(me.rest)
          \/ me.at \in {"waiting", "ok"} /\ me.op = "Join" /\ me.c = c
    /\ me.at \in {"paying", "paid"} => \A c \in me.owed : ~Stays(q, j, s, c)
    /\ me.at \in {"waiting", "ok", "err"} /\ me.op = "Leave" => ~Stays(q, j, s, me.c)
    /\ me.at = "closing" =>
          \A c \in me.joined \cup me.owed : c \in Range(me.rest) \/ ~Stays(q, j, s, c)

\* Firm joins hold, and so does one that has just been answered.
FirmOK(me, q, j, s) ==
    /\ \A c \in me.firm : Member(j, s, c) /\ ~Leaves(q, s, c)
    /\ me.at = "ok" /\ me.op = "Join" => Member(j, s, me.c) /\ ~Leaves(q, s, me.c)

SessionOK(me, q, j, s) ==
    KeptOK(me) /\ HeardOK(me, q, s) /\ StaysOK(me, q, j, s) /\ FirmOK(me, q, j, s)

MemberInv ==
    /\ BroadcastInv
    /\ cmds \in Seq(Commands)
    /\ sess \in [Sessions -> SessionState]
    /\ \A s \in Sessions : SessionOK(sess[s], cmds, joins, s)
-----------------------------------------------------------------------------
(* What a change of the queue does to what stays and what is left. *)

NoneHeard(q, s) == \A i \in DOMAIN q : q[i].s = s => ~q[i].heard

\* What a teardown sends: no joins, and nobody waits.
Releases(y, s) == \A i \in DOMAIN y : y[i].s = s /\ y[i].op # "Join" /\ ~y[i].heard

LeavesOf(first, leaves, s) ==
    /\ Len(first) = Len(leaves)
    /\ \A i \in 1..Len(leaves) : Is(first[i], "Leave", s, leaves[i]) /\ ~first[i].heard

IsRelease(last, s) == last.s = s /\ last.op = "Release" /\ ~last.heard

\* The same commands in the same places; only who still waits may differ.
SameCommands(q, r) ==
    /\ DOMAIN r = DOMAIN q
    /\ \A i \in DOMAIN q : r[i].op = q[i].op /\ r[i].s = q[i].s /\ r[i].c = q[i].c

LEMMA SameStays ==
    ASSUME NEW q, NEW r, SameCommands(q, r), NEW j, NEW s, NEW c
    PROVE  /\ Stays(r, j, s, c) <=> Stays(q, j, s, c)
           /\ Leaves(r, s, c) <=> Leaves(q, s, c)
BY DEF SameCommands, Stays, Leaves, Is

\* The positions of a queue with one more command.
LEMMA AppendIs ==
    ASSUME NEW q \in Seq(Commands), NEW x \in Commands, NEW r, r = Append(q, x)
    PROVE  /\ r \in Seq(Commands)
           /\ DOMAIN r = DOMAIN q \cup {Len(q) + 1}
           /\ DOMAIN q = 1..Len(q) /\ Len(q) \in Nat
           /\ \A i \in DOMAIN q : r[i] = q[i]
           /\ r[Len(q) + 1] = x
OBVIOUS

LEMMA AppendStays ==
    ASSUME NEW q \in Seq(Commands), NEW x \in Commands, NEW r, r = Append(q, x),
           NEW j, NEW s, NEW c
    PROVE  /\ Stays(r, j, s, c) => Is(x, "Join", s, c) \/ Stays(q, j, s, c)
           /\ Is(x, "Leave", s, c) => ~Stays(r, j, s, c)
           /\ Leaves(r, s, c) <=> Leaves(q, s, c) \/ Is(x, "Leave", s, c)
<1>1. /\ DOMAIN r = DOMAIN q \cup {Len(q) + 1}
      /\ DOMAIN q = 1..Len(q) /\ Len(q) \in Nat
      /\ \A i \in DOMAIN q : r[i] = q[i]
      /\ r[Len(q) + 1] = x
  BY AppendIs
<1>2. Leaves(r, s, c) <=> Leaves(q, s, c) \/ Is(x, "Leave", s, c)
  BY <1>1, Zenon DEF Leaves
<1>3. ASSUME Stays(r, j, s, c)
      PROVE  Is(x, "Join", s, c) \/ Stays(q, j, s, c)
  <2>1. CASE Member(j, s, c) /\ ~Leaves(r, s, c)
    BY <1>2, <2>1, Zenon DEF Stays
  <2>2. ASSUME NEW i \in DOMAIN r, Is(r[i], "Join", s, c),
               \A k \in DOMAIN r : k > i => ~Is(r[k], "Leave", s, c)
        PROVE  Is(x, "Join", s, c) \/ Stays(q, j, s, c)
    BY <1>1, <2>2, Zenon DEF Stays
  <2> QED BY <1>3, <2>1, <2>2, Zenon DEF Stays
<1>4. ASSUME Is(x, "Leave", s, c)
      PROVE  ~Stays(r, j, s, c)
  <2>1. Leaves(r, s, c)
    BY <1>2, <1>4, Zenon
  <2>2. ASSUME NEW i \in DOMAIN r, Is(r[i], "Join", s, c)
        PROVE  \E k \in DOMAIN r : k > i /\ Is(r[k], "Leave", s, c)
    <3>1. i # Len(q) + 1
      BY <1>1, <1>4, <2>2, Zenon DEF Is
    <3>2. Len(q) + 1 > i
      BY <1>1, <3>1
    <3> QED BY <1>1, <1>4, <3>2, Zenon
  <2> QED BY <2>1, <2>2, Zenon DEF Stays
<1> QED BY <1>2, <1>3, <1>4, Zenon

LEMMA LeaveStays ==
    ASSUME NEW q \in Seq(Commands), NEW x \in Commands, NEW r, r = Append(q, x),
           x.op = "Leave", NEW j
    PROVE  /\ \A s, c : Stays(r, j, s, c) => Stays(q, j, s, c)
           /\ ~Stays(r, j, x.s, x.c)
           /\ \A s, c : Leaves(r, s, c) => Leaves(q, s, c) \/ (s = x.s /\ c = x.c)
<1>1. \A s, c : ~Is(x, "Join", s, c) /\ (Is(x, "Leave", s, c) <=> s = x.s /\ c = x.c)
  BY Zenon DEF Is
<1>2. ASSUME NEW s, NEW c
      PROVE  /\ Stays(r, j, s, c) => Is(x, "Join", s, c) \/ Stays(q, j, s, c)
             /\ Is(x, "Leave", s, c) => ~Stays(r, j, s, c)
             /\ Leaves(r, s, c) => Leaves(q, s, c) \/ Is(x, "Leave", s, c)
  BY AppendStays, Zenon
<1> QED BY <1>1, <1>2, Zenon

\* Running the command at the head.
LEMMA TailStays ==
    ASSUME NEW q \in Seq(Commands), q # <<>>, NEW r, r = Tail(q),
           NEW j, NEW k, NEW s, NEW c,
           Member(k, s, c) => Member(j, s, c) \/ Is(Head(q), "Join", s, c),
           Is(Head(q), "Leave", s, c) => ~Member(k, s, c)
    PROVE  /\ Stays(r, k, s, c) => Stays(q, j, s, c)
           /\ Leaves(r, s, c) => Leaves(q, s, c)
<1>1. /\ r \in Seq(Commands) /\ Len(q) \in Nat \ {0}
      /\ DOMAIN q = 1..Len(q) /\ DOMAIN r = 1..(Len(q) - 1)
      /\ \A i \in DOMAIN r : i + 1 \in DOMAIN q /\ r[i] = q[i + 1]
      /\ Head(q) = q[1]
  OBVIOUS
<1>2. \A i \in DOMAIN q : i # 1 => i - 1 \in DOMAIN r /\ r[i - 1] = q[i]
  BY <1>1
<1>3. Leaves(r, s, c) => Leaves(q, s, c)
  BY <1>1, Zenon DEF Leaves
<1>4. Leaves(q, s, c) => Leaves(r, s, c) \/ Is(Head(q), "Leave", s, c)
  BY <1>1, <1>2, Zenon DEF Leaves
<1>5. ASSUME NEW i \in DOMAIN r, Is(r[i], "Join", s, c),
             \A n \in DOMAIN r : n > i => ~Is(r[n], "Leave", s, c)
      PROVE  Stays(q, j, s, c)
  <2>1. i + 1 \in DOMAIN q /\ Is(q[i + 1], "Join", s, c)
    BY <1>1, <1>5, Zenon
  <2>2. ASSUME NEW n \in DOMAIN q, n > i + 1
        PROVE  ~Is(q[n], "Leave", s, c)
    <3>1. n \in Nat /\ i \in Nat /\ n # 1 /\ n - 1 > i
      BY <1>1, <2>2
    <3>2. n - 1 \in DOMAIN r /\ r[n - 1] = q[n]
      BY <1>2, <3>1, Zenon
    <3> QED BY <1>5, <3>1, <3>2, Zenon
  <2> QED BY <2>1, <2>2, Zenon DEF Stays
<1>6. ASSUME Member(k, s, c), ~Leaves(r, s, c)
      PROVE  Stays(q, j, s, c)
  <2>1. ~Leaves(q, s, c)
    BY <1>4, <1>6, Zenon
  <2>2. CASE Is(Head(q), "Join", s, c)
    BY <1>1, <2>1, <2>2 DEF Stays, Leaves
  <2> QED BY <1>6, <2>1, <2>2, Zenon DEF Stays
<1> QED BY <1>3, <1>5, <1>6, Zenon DEF Stays

\* Several leaves at once, all of one session.
LEMMA ConcatStays ==
    ASSUME NEW q \in Seq(Commands), NEW y \in Seq(Commands), NEW r, r = q \o y, NEW s,
           Releases(y, s)
    PROVE  /\ r \in Seq(Commands)
           /\ \A j, t, c : Stays(r, j, t, c) => Stays(q, j, t, c)
           /\ \A j, c : Leaves(y, s, c) => ~Stays(r, j, s, c)
           /\ \A t, c : t # s => (Leaves(r, t, c) => Leaves(q, t, c))
           /\ NoneHeard(q, s) => NoneHeard(r, s)
           /\ \A me, t : t # s /\ HeardOK(me, q, t) => HeardOK(me, r, t)
<1>1. /\ r \in Seq(Commands) /\ Len(q) \in Nat /\ Len(y) \in Nat
      /\ DOMAIN q = 1..Len(q) /\ DOMAIN y = 1..Len(y) /\ DOMAIN r = 1..(Len(q) + Len(y))
      /\ \A i \in DOMAIN q : r[i] = q[i]
      /\ \A i \in DOMAIN r : i > Len(q) => i - Len(q) \in DOMAIN y /\ r[i] = y[i - Len(q)]
      /\ \A i \in DOMAIN y : i + Len(q) \in DOMAIN r /\ r[i + Len(q)] = y[i]
  <2>1. r \in Seq(Commands) /\ Len(q) \in Nat /\ Len(y) \in Nat /\ Len(r) = Len(q) + Len(y)
    OBVIOUS
  <2>2. DOMAIN q = 1..Len(q) /\ DOMAIN y = 1..Len(y) /\ DOMAIN r = 1..Len(r)
    BY <2>1
  <2>3. \A i \in 1..(Len(q) + Len(y)) : r[i] = IF i <= Len(q) THEN q[i] ELSE y[i - Len(q)]
    OBVIOUS
  <2> QED BY <2>1, <2>2, <2>3
<1>2. \A i \in DOMAIN r : i \in DOMAIN q \/ (i > Len(q) /\ r[i].s = s /\ r[i].op # "Join" /\ ~r[i].heard)
  BY <1>1 DEF Releases
<1>3. DOMAIN q \subseteq DOMAIN r
  BY <1>1
<1>4. ASSUME NEW t, NEW c, Leaves(q, t, c)
      PROVE  Leaves(r, t, c)
  BY <1>1, <1>3, <1>4, Zenon DEF Leaves
<1>5. ASSUME NEW j, NEW t, NEW c, Stays(r, j, t, c)
      PROVE  Stays(q, j, t, c)
  <2>1. ASSUME NEW i \in DOMAIN r, Is(r[i], "Join", t, c),
               \A k \in DOMAIN r : k > i => ~Is(r[k], "Leave", t, c)
        PROVE  Stays(q, j, t, c)
    <3>1. i \in DOMAIN q /\ Is(q[i], "Join", t, c)
      BY <1>1, <1>2, <2>1, Zenon DEF Is
    <3>2. \A k \in DOMAIN q : k > i => ~Is(q[k], "Leave", t, c)
      BY <1>1, <1>3, <2>1, Zenon
    <3> QED BY <3>1, <3>2, Zenon DEF Stays
  <2>2. CASE Member(j, t, c) /\ ~Leaves(r, t, c)
    BY <1>4, <2>2, Zenon DEF Stays
  <2> QED BY <1>5, <2>1, <2>2, Zenon DEF Stays
<1>6. ASSUME NEW j, NEW c, Leaves(y, s, c)
      PROVE  ~Stays(r, j, s, c)
  <2>1. PICK n \in DOMAIN y : Is(y[n], "Leave", s, c)
    BY <1>6, Zenon DEF Leaves
  <2>2. n + Len(q) \in DOMAIN r /\ Is(r[n + Len(q)], "Leave", s, c) /\ n >= 1 /\ n \in Nat
    BY <1>1, <2>1
  <2>3. ASSUME NEW i \in DOMAIN r, Is(r[i], "Join", s, c)
        PROVE  n + Len(q) > i
    <3>1. i \in DOMAIN q
      BY <1>2, <2>3, Zenon DEF Is
    <3> QED BY <1>1, <2>2, <3>1
  <2> QED BY <2>2, <2>3, Zenon DEF Stays, Leaves
<1>7. ASSUME NEW t, NEW c, t # s, Leaves(r, t, c)
      PROVE  Leaves(q, t, c)
  <2>1. PICK n \in DOMAIN r : Is(r[n], "Leave", t, c)
    BY <1>7, Zenon DEF Leaves
  <2>2. n \in DOMAIN q
    BY <1>2, <1>7, <2>1, Zenon DEF Is
  <2> QED BY <1>1, <2>1, <2>2, Zenon DEF Leaves
<1>8. NoneHeard(q, s) => NoneHeard(r, s)
  BY <1>1, <1>2, Zenon DEF NoneHeard
<1>9. ASSUME NEW me, NEW t, t # s, HeardOK(me, q, t)
      PROVE  HeardOK(me, r, t)
  <2> SUFFICES ASSUME NEW i \in DOMAIN r, r[i].s = t, r[i].heard
               PROVE  /\ \/ me.at = "waiting" /\ r[i].op = me.op /\ r[i].c = me.c
                         \/ me.at = "paying" /\ r[i].op = "Leave"
                      /\ \A k \in DOMAIN r : k > i => r[k].s # t
    BY Zenon DEF HeardOK
  <2>1. i \in DOMAIN q /\ r[i] = q[i]
    BY <1>1, <1>2, Zenon
  <2>2. \A k \in DOMAIN r : k > i => r[k].s # t
    <3> SUFFICES ASSUME NEW k \in DOMAIN r, k > i PROVE r[k].s # t
      BY Zenon
    <3>1. CASE k \in DOMAIN q
      BY <1>1, <1>9, <2>1, <3>1 DEF HeardOK
    <3>2. CASE k \notin DOMAIN q
      BY <1>2, <1>9, <3>2, Zenon
    <3> QED BY <3>1, <3>2, Zenon
  <2> QED BY <1>9, <2>1, <2>2, Zenon DEF HeardOK
<1> QED BY <1>1, <1>5, <1>6, <1>7, <1>8, <1>9, Zenon

\* One more command, of another session or with nobody waiting for any.
LEMMA AppendHeard ==
    ASSUME NEW q \in Seq(Commands), NEW x \in Commands, NEW r, r = Append(q, x), NEW me, NEW t
    PROVE  /\ x.s # t /\ HeardOK(me, q, t) => HeardOK(me, r, t)
           /\ NoneHeard(q, t) /\ ~x.heard => NoneHeard(r, t)
           /\ /\ NoneHeard(q, t) /\ x.s = t
              /\ \/ me.at = "waiting" /\ x.op = me.op /\ x.c = me.c
                 \/ me.at = "paying" /\ x.op = "Leave"
              => HeardOK(me, r, t)
<1>1. /\ DOMAIN r = DOMAIN q \cup {Len(q) + 1}
      /\ DOMAIN q = 1..Len(q) /\ Len(q) \in Nat
      /\ \A i \in DOMAIN q : r[i] = q[i]
      /\ r[Len(q) + 1] = x
  BY AppendIs
<1>2. x.s # t /\ HeardOK(me, q, t) => HeardOK(me, r, t)
  BY <1>1 DEF HeardOK
<1>3. NoneHeard(q, t) /\ ~x.heard => NoneHeard(r, t)
  BY <1>1, Zenon DEF NoneHeard
<1>4. ASSUME NoneHeard(q, t), x.s = t,
             \/ me.at = "waiting" /\ x.op = me.op /\ x.c = me.c
             \/ me.at = "paying" /\ x.op = "Leave"
      PROVE  HeardOK(me, r, t)
  <2>1. \A i \in DOMAIN r : r[i].s = t /\ r[i].heard => i = Len(q) + 1
    BY <1>1, <1>4, Zenon DEF NoneHeard
  <2>2. \A k \in DOMAIN r : ~(k > Len(q) + 1)
    BY <1>1
  <2> QED BY <1>1, <1>4, <2>1, <2>2, Zenon DEF HeardOK
<1> QED BY <1>2, <1>3, <1>4, Zenon

\* Where nobody can be waiting, nobody is.
LEMMA NobodyWaits ==
    ASSUME NEW me, NEW q, NEW s
    PROVE  /\ HeardOK(me, q, s) /\ me.at \notin {"waiting", "paying"} => NoneHeard(q, s)
           /\ NoneHeard(q, s) => HeardOK(me, q, s)
BY Zenon DEF HeardOK, NoneHeard

LEMMA UnheardIs ==
    ASSUME cmds \in Seq(Commands), NEW s, NEW r, r = Unheard(s)
    PROVE  /\ r \in Seq(Commands) /\ SameCommands(cmds, r) /\ NoneHeard(r, s)
           /\ \A me, t : t # s /\ HeardOK(me, cmds, t) => HeardOK(me, r, t)
           /\ Len(r) = Len(cmds)
<1>1. /\ DOMAIN cmds = 1..Len(cmds) /\ Len(cmds) \in Nat
      /\ \A i \in DOMAIN cmds : cmds[i] \in Commands
  OBVIOUS
<1>2. \A x \in Commands : [x EXCEPT !.heard = FALSE] \in Commands
  BY Zenon DEF Commands
<1>3. /\ DOMAIN r = 1..Len(cmds)
      /\ \A i \in DOMAIN cmds : cmds[i].s = s => r[i] = [cmds[i] EXCEPT !.heard = FALSE]
      /\ \A i \in DOMAIN cmds : cmds[i].s # s => r[i] = cmds[i]
      /\ r = [i \in 1..Len(cmds) |-> r[i]]
  BY <1>1, Zenon DEF Unheard
<1>4. \A i \in 1..Len(cmds) : r[i] \in Commands
  BY <1>1, <1>2, <1>3, Zenon
<1>5. r \in Seq(Commands) /\ Len(r) = Len(cmds)
  BY <1>1, <1>3, <1>4
<1>6. ASSUME NEW x \in Commands, NEW y, y = [x EXCEPT !.heard = FALSE]
      PROVE  y.op = x.op /\ y.s = x.s /\ y.c = x.c /\ y.heard = FALSE
  BY <1>6, Zenon DEF Commands
<1>7. SameCommands(cmds, r) /\ NoneHeard(r, s)
  <2>1. \A i \in DOMAIN cmds :
           /\ r[i].op = cmds[i].op /\ r[i].s = cmds[i].s /\ r[i].c = cmds[i].c
           /\ cmds[i].s = s => r[i].heard = FALSE
    <3> SUFFICES ASSUME NEW i \in DOMAIN cmds
                 PROVE  /\ r[i].op = cmds[i].op /\ r[i].s = cmds[i].s /\ r[i].c = cmds[i].c
                        /\ cmds[i].s = s => r[i].heard = FALSE
      BY Zenon
    <3>1. CASE cmds[i].s = s
      <4>1. r[i] = [cmds[i] EXCEPT !.heard = FALSE] /\ cmds[i] \in Commands
        BY <1>1, <1>3, <3>1, Zenon
      <4> QED BY <1>6, <4>1, Zenon
    <3>2. CASE cmds[i].s # s
      BY <1>3, <3>2, Zenon
    <3> QED BY <3>1, <3>2, Zenon
  <2> QED BY <1>1, <1>3, <2>1, Zenon DEF SameCommands, NoneHeard
<1>8. ASSUME NEW me, NEW t, t # s, HeardOK(me, cmds, t)
      PROVE  HeardOK(me, r, t)
  <2>1. \A i \in DOMAIN r : r[i].s = cmds[i].s /\ (r[i].s = t => r[i] = cmds[i])
    BY <1>1, <1>3, <1>7, <1>8, Zenon DEF SameCommands
  <2> QED BY <1>1, <1>3, <1>8, <2>1 DEF HeardOK
<1> QED BY <1>5, <1>7, <1>8, Zenon

\* The order `close` and `release_now` take leaves every channel there is.
LEMMA InOrderIs ==
    ASSUME Counting, NEW S \in SUBSET Channels, NEW q, q = InOrder(S)
    PROVE  q \in Seq(Channels) /\ Range(q) = S
<1>1. IsFiniteSet(S) /\ Cardinality(S) \in Nat
  BY BroadcastAssumption, CountSubset, CountType, Zenon
<1>3. PICK f : f \in Injection(1..Cardinality(S), S)
  BY <1>1, Zenon DEF Counting
<1>4. q \in Injection(1..Cardinality(S), S)
  BY <1>3, Zenon DEF InOrder
<1>5. q \in [1..Cardinality(S) -> S]
  BY <1>4, Zenon DEF Injection
<1>7. q \in Surjection(1..Cardinality(S), S)
  BY <1>1, <1>4, Zenon DEF Counting
<1>8. Range(q) = S
  BY <1>5, <1>7, Zenon DEF Surjection, Range
<1> QED BY <1>1, <1>5, <1>8
-----------------------------------------------------------------------------
(* The steps of a session. *)

\* What a step does not do to a session: its state is as it was, no channel
\* stays that did not, and no join goes without its leave.
LEMMA OtherSession ==
    ASSUME NEW me, NEW t, NEW q, NEW j, NEW r, NEW k, SessionOK(me, q, j, t), HeardOK(me, r, t),
           \A c : Stays(r, k, t, c) => Stays(q, j, t, c),
           \A c : Leaves(r, t, c) => Leaves(q, t, c),
           \A c : Member(j, t, c) /\ ~Leaves(q, t, c) => Member(k, t, c)
    PROVE  SessionOK(me, r, k, t)
<1>1. KeptOK(me)
  BY Zenon DEF SessionOK
<1>2. StaysOK(me, r, k, t)
  BY Zenon DEF SessionOK, StaysOK
<1>3. FirmOK(me, r, k, t)
  BY Zenon DEF SessionOK, FirmOK
<1> QED BY <1>1, <1>2, <1>3, Zenon DEF SessionOK

\* A step of one session changes only that session, and no join.
LEMMA OneSession ==
    ASSUME MemberInv, NEW s \in Sessions, NEW new, UNCHANGED vars,
           sess' = [sess EXCEPT ![s] = new],
           cmds' \in Seq(Commands), SessionOK(new, cmds', joins, s),
           \A t \in Sessions \ {s} : SessionOK(sess[t], cmds', joins, t)
    PROVE  MemberInv'
<1>1. joins' = joins /\ BroadcastInv'
  BY QuietInv, Zenon DEF MemberInv, vars, Follows
<1>2. new \in SessionState
  BY Zenon DEF SessionOK, KeptOK
<1>3. sess' \in [Sessions -> SessionState] /\ sess'[s] = new
  BY <1>2, Zenon DEF MemberInv
<1>4. \A t \in Sessions \ {s} : sess'[t] = sess[t]
  BY Zenon DEF MemberInv
<1>5. \A t \in Sessions : SessionOK(sess'[t], cmds', joins', t)
  BY <1>1, <1>3, <1>4, Zenon
<1> QED BY <1>1, <1>3, <1>5, Zenon DEF MemberInv

\* ... and no other session notices a command it sends.
LEMMA OneSent ==
    ASSUME MemberInv, NEW s \in Sessions, NEW x \in Commands, x.s = s,
           NEW t \in Sessions \ {s}
    PROVE  SessionOK(sess[t], Append(cmds, x), joins, t)
<1> DEFINE r == Append(cmds, x)
<1>1. cmds \in Seq(Commands) /\ SessionOK(sess[t], cmds, joins, t)
  BY Zenon DEF MemberInv
<1>2. HeardOK(sess[t], r, t)
  BY <1>1, AppendHeard, Zenon DEF SessionOK
<1>3. \A c : Stays(r, joins, t, c) => Stays(cmds, joins, t, c)
  BY <1>1, AppendStays, Zenon DEF Is
<1>4. \A c : Leaves(r, t, c) => Leaves(cmds, t, c)
  BY <1>1, AppendStays, Zenon DEF Is
<1> HIDE DEF r
<1>5. SessionOK(sess[t], r, joins, t)
  BY <1>1, <1>2, <1>3, <1>4, OtherSession, Zenon
<1> QED BY <1>5, Zenon DEF r

\* The steps that send nothing.
LEMMA CallInv ==
    ASSUME MemberInv, NEW s \in Sessions, NEW op \in {"Join", "Leave"}, NEW c \in Channels,
           Call(s, op, c)
    PROVE  MemberInv'
<1> DEFINE me == sess[s]
           new == [me EXCEPT !.at = "owing", !.op = op, !.c = c,
                             !.firm = IF op = "Leave" THEN me.firm \ {c} ELSE me.firm]
<1>1. me \in SessionState /\ SessionOK(me, cmds, joins, s)
  BY Zenon DEF MemberInv
<1>2. me.at = "idle" /\ UNCHANGED <<vars, cmds>>
  BY Zenon DEF Call
<1>3. sess' = [sess EXCEPT ![s] = new]
  BY <1>1, Zenon DEF Call, MemberInv, SessionState
<1>4. /\ new \in SessionState /\ new.at = "owing" /\ new.op = op /\ new.c = c
      /\ new.joined = me.joined /\ new.owed = me.owed /\ new.rest = me.rest
      /\ new.firm \subseteq me.firm /\ (op = "Leave" => c \notin new.firm)
  BY <1>1, Zenon DEF SessionState
<1> HIDE DEF me, new
<1>5. KeptOK(new)
  BY <1>1, <1>2, <1>4, Zenon DEF SessionOK, KeptOK
<1>6. HeardOK(new, cmds, s)
  BY <1>1, <1>2, NobodyWaits, Zenon DEF SessionOK
<1>7. StaysOK(new, cmds, joins, s)
  BY <1>1, <1>2, <1>4, Zenon DEF SessionOK, StaysOK
<1>8. FirmOK(new, cmds, joins, s)
  BY <1>1, <1>2, <1>4, Zenon DEF SessionOK, FirmOK
<1> QED BY <1>2, <1>3, <1>5, <1>6, <1>7, <1>8, OneSession, Zenon DEF SessionOK, MemberInv

LEMMA OwedLeaveSentInv ==
    ASSUME MemberInv, NEW s \in Sessions, OwedLeaveSent(s)
    PROVE  MemberInv'
<1> DEFINE me == sess[s]
           new == [me EXCEPT !.at = "owing", !.owed = {}]
<1>1. me \in SessionState /\ SessionOK(me, cmds, joins, s)
  BY Zenon DEF MemberInv
<1>2. me.at = "paid" /\ UNCHANGED <<vars, cmds>>
  BY Zenon DEF OwedLeaveSent
<1>3. sess' = [sess EXCEPT ![s] = new]
  BY <1>1, Zenon DEF OwedLeaveSent, MemberInv, SessionState
<1>4. /\ new \in SessionState /\ new.at = "owing" /\ new.op = me.op /\ new.c = me.c
      /\ new.joined = me.joined /\ new.owed = {} /\ new.rest = me.rest /\ new.firm = me.firm
  BY <1>1, Zenon DEF SessionState
<1> HIDE DEF me, new
<1>5. KeptOK(new)
  BY <1>1, <1>2, <1>4, Zenon DEF SessionOK, KeptOK
<1>6. HeardOK(new, cmds, s)
  BY <1>1, <1>2, NobodyWaits, Zenon DEF SessionOK
<1>7. StaysOK(new, cmds, joins, s)
  BY <1>1, <1>2, <1>4, Zenon DEF SessionOK, StaysOK
<1>8. FirmOK(new, cmds, joins, s)
  BY <1>1, <1>2, <1>4, Zenon DEF SessionOK, FirmOK
<1> QED BY <1>2, <1>3, <1>5, <1>6, <1>7, <1>8, OneSession, Zenon DEF SessionOK, MemberInv

LEMMA RecordInv ==
    ASSUME MemberInv, NEW s \in Sessions, Record(s)
    PROVE  MemberInv'
<1> DEFINE me == sess[s]
           joined == IF me.op = "Leave" THEN me.joined \ {me.c}
                     ELSE IF me.at = "ok" THEN me.joined \cup {me.c} ELSE me.joined
           firm == IF me.op = "Join" /\ me.at = "ok" THEN me.firm \cup {me.c} ELSE me.firm
           new == [Idle(me) EXCEPT !.joined = joined, !.firm = firm]
<1>1. me \in SessionState /\ SessionOK(me, cmds, joins, s)
  BY Zenon DEF MemberInv
<1>2. me.at \in {"ok", "err"} /\ UNCHANGED <<vars, cmds>>
  BY Zenon DEF Record
<1>3. sess' = [sess EXCEPT ![s] = new]
  BY <1>1, Zenon DEF Record, Idle, MemberInv, SessionState
<1>4. me.op \in {"Join", "Leave"} /\ me.c \in Channels
  BY <1>1, <1>2, Zenon DEF SessionOK, KeptOK
<1>5. /\ new \in SessionState /\ new.at = "idle" /\ new.op = "None"
      /\ new.joined = joined /\ new.owed = me.owed /\ new.rest = me.rest /\ new.firm = firm
  BY <1>1, <1>4, Zenon DEF SessionState, Idle
<1> HIDE DEF me, new
<1>6. KeptOK(new)
  BY <1>1, <1>2, <1>4, <1>5, Zenon DEF SessionOK, KeptOK
<1>7. HeardOK(new, cmds, s)
  BY <1>1, <1>2, NobodyWaits, Zenon DEF SessionOK
<1>8. StaysOK(new, cmds, joins, s)
  BY <1>1, <1>2, <1>4, <1>5, Zenon DEF SessionOK, StaysOK
<1>9. FirmOK(new, cmds, joins, s)
  BY <1>1, <1>2, <1>4, <1>5, Zenon DEF SessionOK, FirmOK
<1> QED BY <1>2, <1>3, <1>6, <1>7, <1>8, <1>9, OneSession, Zenon DEF SessionOK, MemberInv

LEMMA CloseInv ==
    ASSUME Counting, MemberInv, NEW s \in Sessions, Close(s)
    PROVE  MemberInv'
<1> DEFINE me == sess[s]
           rest == InOrder(me.joined \cup me.owed)
           new == [me EXCEPT !.at = "closing", !.firm = {}, !.rest = rest]
<1>1. me \in SessionState /\ SessionOK(me, cmds, joins, s)
  BY Zenon DEF MemberInv
<1>2. me.at = "idle" /\ UNCHANGED <<vars, cmds>>
  BY Zenon DEF Close
<1>3. sess' = [sess EXCEPT ![s] = new]
  BY <1>1, Zenon DEF Close, ChannelsToLeave, MemberInv, SessionState
<1>4. me.joined \cup me.owed \in SUBSET Channels
  BY <1>1, Zenon DEF SessionState
<1>5. rest \in Seq(Channels) /\ Range(rest) = me.joined \cup me.owed
  BY <1>4, InOrderIs, Zenon
<1> HIDE DEF rest
<1>6. /\ new \in SessionState /\ new.at = "closing" /\ new.op = me.op /\ new.c = me.c
      /\ new.joined = me.joined /\ new.owed = me.owed /\ new.rest = rest /\ new.firm = {}
  BY <1>1, <1>5, Zenon DEF SessionState
<1> HIDE DEF me, new
<1>7. KeptOK(new)
  BY <1>1, <1>2, <1>5, <1>6, Zenon DEF SessionOK, KeptOK
<1>8. HeardOK(new, cmds, s)
  BY <1>1, <1>2, NobodyWaits, Zenon DEF SessionOK
<1>9. StaysOK(new, cmds, joins, s)
  <2>1. \A c \in Channels : Stays(cmds, joins, s, c) =>
            c \in me.joined \cup me.owed \cup Range(me.rest)
    BY <1>1, <1>2, Zenon DEF SessionOK, StaysOK
  <2>2. Range(me.rest) = {}
    BY <1>1, <1>2 DEF SessionOK, KeptOK, Range
  <2> QED BY <1>5, <1>6, <2>1, <2>2, Zenon DEF StaysOK
<1>10. FirmOK(new, cmds, joins, s)
  BY <1>6, Zenon DEF FirmOK
<1> QED BY <1>2, <1>3, <1>7, <1>8, <1>9, <1>10, OneSession, Zenon DEF SessionOK, MemberInv

LEMMA ClosedInv ==
    ASSUME MemberInv, NEW s \in Sessions, Closed(s)
    PROVE  MemberInv'
<1> DEFINE me == sess[s]
           new == [me EXCEPT !.at = "ended", !.joined = {}, !.owed = {}]
<1>1. me \in SessionState /\ SessionOK(me, cmds, joins, s)
  BY Zenon DEF MemberInv
<1>2. me.at = "closing" /\ me.rest = <<>> /\ UNCHANGED <<vars, cmds>>
  BY Zenon DEF Closed
<1>3. sess' = [sess EXCEPT ![s] = new]
  BY <1>1, Zenon DEF Closed, MemberInv, SessionState
<1>4. /\ new \in SessionState /\ new.at = "ended" /\ new.op = me.op /\ new.c = me.c
      /\ new.joined = {} /\ new.owed = {} /\ new.rest = me.rest /\ new.firm = me.firm
  BY <1>1, Zenon DEF SessionState
<1> HIDE DEF me, new
<1>5. KeptOK(new)
  BY <1>1, <1>2, <1>4, Zenon DEF SessionOK, KeptOK
<1>6. HeardOK(new, cmds, s)
  BY <1>1, <1>2, NobodyWaits, Zenon DEF SessionOK
<1>7. Range(me.rest) = {}
  BY <1>2 DEF Range
<1>8. StaysOK(new, cmds, joins, s)
  BY <1>1, <1>2, <1>4, <1>7, Zenon DEF SessionOK, StaysOK
<1>9. FirmOK(new, cmds, joins, s)
  BY <1>1, <1>2, <1>4, Zenon DEF SessionOK, FirmOK, KeptOK
<1> QED BY <1>2, <1>3, <1>5, <1>6, <1>8, <1>9, OneSession, Zenon DEF SessionOK, MemberInv

\* The steps that send one command.
LEMMA SendOwedLeavesInv ==
    ASSUME MemberInv, NEW s \in Sessions, SendOwedLeaves(s)
    PROVE  MemberInv'
<1> DEFINE me == sess[s]
           new(at) == [me EXCEPT !.at = at]
<1>1. me \in SessionState /\ SessionOK(me, cmds, joins, s) /\ cmds \in Seq(Commands)
  BY Zenon DEF MemberInv
<1>2. me.at = "owing" /\ UNCHANGED vars
  BY Zenon DEF SendOwedLeaves
<1>3. ASSUME NEW at \in {"asking", "paying"}
      PROVE  /\ new(at) \in SessionState /\ new(at).at = at /\ new(at).op = me.op
             /\ new(at).c = me.c /\ new(at).joined = me.joined /\ new(at).owed = me.owed
             /\ new(at).rest = me.rest /\ new(at).firm = me.firm
  BY <1>1, Zenon DEF SessionState
<1>4. CASE /\ me.owed = {} /\ cmds' = cmds
           /\ sess' = [sess EXCEPT ![s].at = "asking"]
  <2>1. sess' = [sess EXCEPT ![s] = new("asking")]
    BY <1>1, <1>4, Zenon DEF MemberInv, SessionState
  <2> DEFINE n == new("asking")
  <2>2. /\ n \in SessionState /\ n.at = "asking" /\ n.op = me.op /\ n.c = me.c
        /\ n.joined = me.joined /\ n.owed = me.owed /\ n.rest = me.rest /\ n.firm = me.firm
    BY <1>3, Zenon
  <2> HIDE DEF me, n
  <2>3. KeptOK(n) /\ HeardOK(n, cmds, s)
    BY <1>1, <1>2, <1>4, <2>2, NobodyWaits, Zenon DEF SessionOK, KeptOK
  <2>4. StaysOK(n, cmds, joins, s)
    BY <1>1, <1>2, <2>2, Zenon DEF SessionOK, StaysOK
  <2>5. FirmOK(n, cmds, joins, s)
    BY <1>1, <1>2, <2>2, Zenon DEF SessionOK, FirmOK
  <2>6. sess' = [sess EXCEPT ![s] = n]
    BY <2>1, Zenon DEF n
  <2> QED BY <1>2, <1>4, <2>3, <2>4, <2>5, <2>6, OneSession, Zenon DEF SessionOK, MemberInv
<1>5. ASSUME NEW c \in me.owed,
             cmds' = Append(cmds, Command("Leave", s, c, TRUE)),
             sess' = [sess EXCEPT ![s].at = "paying"]
      PROVE  MemberInv'
  <2> DEFINE n == new("paying")
             x == Command("Leave", s, c, TRUE)
  <2>1. sess' = [sess EXCEPT ![s] = n]
    BY <1>1, <1>5, Zenon DEF MemberInv, SessionState
  <2>2. /\ n \in SessionState /\ n.at = "paying" /\ n.op = me.op /\ n.c = me.c
        /\ n.joined = me.joined /\ n.owed = me.owed /\ n.rest = me.rest /\ n.firm = me.firm
    BY <1>3, Zenon
  <2>3. c \in Channels
    BY <1>1, <1>5, Zenon DEF SessionState
  <2>4. x \in Commands /\ x.s = s /\ x.op = "Leave" /\ x.c = c
    BY <2>3, Zenon DEF Command, Commands
  <2>5. cmds' = Append(cmds, x)
    BY <1>5, Zenon
  <2> HIDE DEF me, n, x
  <2>6. \A d \in me.owed : d = c
    BY <1>1, <1>5, Zenon DEF SessionOK, KeptOK
  <2>7. c \notin me.firm
    BY <1>1, <1>5, Zenon DEF SessionOK, KeptOK
  <2>8. KeptOK(n)
    BY <1>1, <1>2, <2>2, Zenon DEF SessionOK, KeptOK
  <2>9. HeardOK(n, cmds', s)
    <3>1. NoneHeard(cmds, s)
      BY <1>1, <1>2, NobodyWaits, Zenon DEF SessionOK
    <3> QED BY <1>1, <2>2, <2>4, <2>5, <3>1, AppendHeard, Zenon
  <2>10. /\ \A d : Stays(cmds', joins, s, d) => Stays(cmds, joins, s, d)
         /\ ~Stays(cmds', joins, s, c)
         /\ \A d : Leaves(cmds', s, d) => Leaves(cmds, s, d) \/ d = c
    BY <1>1, <2>4, <2>5, LeaveStays, Zenon
  <2>11. StaysOK(n, cmds', joins, s)
    BY <1>1, <1>2, <2>2, <2>6, <2>10, Zenon DEF SessionOK, StaysOK
  <2>12. FirmOK(n, cmds', joins, s)
    BY <1>1, <1>2, <2>2, <2>7, <2>10, Zenon DEF SessionOK, FirmOK
  <2>13. cmds' \in Seq(Commands) /\ \A t \in Sessions \ {s} : SessionOK(sess[t], cmds', joins, t)
    BY <1>1, <2>4, <2>5, AppendIs, OneSent, Zenon
  <2> QED BY <1>2, <2>1, <2>8, <2>9, <2>11, <2>12, <2>13, OneSession, Zenon DEF SessionOK
<1> QED BY <1>4, <1>5, Zenon DEF SendOwedLeaves

LEMMA AskInv ==
    ASSUME MemberInv, NEW s \in Sessions, Ask(s)
    PROVE  MemberInv'
<1> DEFINE me == sess[s]
           new == [me EXCEPT !.at = "waiting"]
           x == Command(me.op, s, me.c, TRUE)
<1>1. me \in SessionState /\ SessionOK(me, cmds, joins, s) /\ cmds \in Seq(Commands)
  BY Zenon DEF MemberInv
<1>2. me.at = "asking" /\ UNCHANGED vars /\ cmds' = Append(cmds, x)
  BY Zenon DEF Ask
<1>3. sess' = [sess EXCEPT ![s] = new]
  BY <1>1, Zenon DEF Ask, MemberInv, SessionState
<1>4. /\ new \in SessionState /\ new.at = "waiting" /\ new.op = me.op /\ new.c = me.c
      /\ new.joined = me.joined /\ new.owed = me.owed /\ new.rest = me.rest
      /\ new.firm = me.firm
  BY <1>1, Zenon DEF SessionState
<1>5. me.op \in {"Join", "Leave"} /\ me.c \in Channels
  BY <1>1, <1>2, Zenon DEF SessionOK, KeptOK
<1>6. x \in Commands /\ x.s = s /\ x.op = me.op /\ x.c = me.c
  BY <1>5, Zenon DEF Command, Commands
<1> HIDE DEF me, new, x
<1>7. KeptOK(new)
  BY <1>1, <1>2, <1>4, Zenon DEF SessionOK, KeptOK
<1>8. HeardOK(new, cmds', s)
  <2>1. NoneHeard(cmds, s)
    BY <1>1, <1>2, NobodyWaits, Zenon DEF SessionOK
  <2> QED BY <1>1, <1>2, <1>4, <1>6, <2>1, AppendHeard, Zenon
<1>9. /\ \A d : Stays(cmds', joins, s, d) =>
                 Stays(cmds, joins, s, d) \/ (me.op = "Join" /\ d = me.c)
      /\ me.op = "Leave" => ~Stays(cmds', joins, s, me.c)
      /\ \A d : Leaves(cmds', s, d) => Leaves(cmds, s, d) \/ (me.op = "Leave" /\ d = me.c)
  <2>1. ASSUME NEW d
        PROVE  /\ Stays(cmds', joins, s, d) => Is(x, "Join", s, d) \/ Stays(cmds, joins, s, d)
               /\ Is(x, "Leave", s, d) => ~Stays(cmds', joins, s, d)
               /\ Leaves(cmds', s, d) => Leaves(cmds, s, d) \/ Is(x, "Leave", s, d)
    BY <1>1, <1>2, <1>6, AppendStays, Zenon
  <2>2. \A d : /\ Is(x, "Join", s, d) => me.op = "Join" /\ d = me.c
               /\ Is(x, "Leave", s, d) <=> me.op = "Leave" /\ d = me.c
    BY <1>6, Zenon DEF Is
  <2> QED BY <2>1, <2>2, Zenon
<1>10. StaysOK(new, cmds', joins, s)
  BY <1>1, <1>2, <1>4, <1>9, Zenon DEF SessionOK, StaysOK
<1>11. FirmOK(new, cmds', joins, s)
  BY <1>1, <1>2, <1>4, <1>9, Zenon DEF SessionOK, FirmOK, KeptOK
<1>12. cmds' \in Seq(Commands) /\ \A t \in Sessions \ {s} : SessionOK(sess[t], cmds', joins, t)
  BY <1>1, <1>2, <1>6, AppendIs, OneSent, Zenon
<1> QED BY <1>2, <1>3, <1>7, <1>8, <1>10, <1>11, <1>12, OneSession, Zenon DEF SessionOK

LEMMA SendRestInv ==
    ASSUME MemberInv, NEW s \in Sessions, SendRest(s)
    PROVE  MemberInv'
<1> DEFINE me == sess[s]
           new == [me EXCEPT !.rest = Tail(me.rest)]
           d == Head(me.rest)
           x == Command("Leave", s, d, FALSE)
<1>1. me \in SessionState /\ SessionOK(me, cmds, joins, s) /\ cmds \in Seq(Commands)
  BY Zenon DEF MemberInv
<1>2. me.rest # <<>> /\ UNCHANGED vars /\ cmds' = Append(cmds, x)
  BY Zenon DEF SendRest
<1>3. sess' = [sess EXCEPT ![s] = new]
  BY <1>1, Zenon DEF SendRest, MemberInv, SessionState
<1>4. me.rest \in Seq(Channels)
  BY <1>1, Zenon DEF SessionState
<1>5. d \in Channels /\ Tail(me.rest) \in Seq(Channels)
  BY <1>2, <1>4
<1>6. Range(me.rest) = {d} \cup Range(Tail(me.rest))
  <2> DEFINE q == me.rest
  <2>1. /\ Len(q) \in Nat \ {0} /\ DOMAIN q = 1..Len(q) /\ DOMAIN Tail(q) = 1..(Len(q) - 1)
        /\ q[1] = d /\ \A i \in DOMAIN Tail(q) : Tail(q)[i] = q[i + 1] /\ i + 1 \in DOMAIN q
    BY <1>2, <1>4
  <2>2. \A i \in DOMAIN q : i = 1 \/ (i - 1 \in DOMAIN Tail(q) /\ Tail(q)[i - 1] = q[i])
    BY <2>1
  <2> HIDE DEF q, d
  <2>3. Range(q) \subseteq {d} \cup Range(Tail(q))
    <3> SUFFICES ASSUME NEW i \in DOMAIN q PROVE q[i] \in {d} \cup Range(Tail(q))
      BY Zenon DEF Range
    <3> QED BY <2>1, <2>2, Zenon DEF Range
  <2>4. Range(Tail(q)) \subseteq Range(q) /\ d \in Range(q)
    BY <2>1 DEF Range
  <2> QED BY <2>3, <2>4, Zenon DEF q
<1>7. /\ new \in SessionState /\ new.at = me.at /\ new.op = me.op /\ new.c = me.c
      /\ new.joined = me.joined /\ new.owed = me.owed /\ new.rest = Tail(me.rest)
      /\ new.firm = me.firm
  BY <1>1, <1>5, Zenon DEF SessionState
<1>8. x \in Commands /\ x.s = s /\ x.op = "Leave" /\ x.c = d /\ ~x.heard
  BY <1>5, Zenon DEF Command, Commands
<1> HIDE DEF me, new, d, x
<1>9. me.at \in {"closing", "ended"}
  BY <1>1, <1>2, Zenon DEF SessionOK, KeptOK
<1>10. KeptOK(new)
  BY <1>1, <1>6, <1>7, <1>9, Zenon DEF SessionOK, KeptOK
<1>11. HeardOK(new, cmds', s)
  BY <1>1, <1>2, <1>8, <1>9, NobodyWaits, AppendHeard, Zenon DEF SessionOK
<1>12. /\ \A c : Stays(cmds', joins, s, c) => Stays(cmds, joins, s, c)
       /\ ~Stays(cmds', joins, s, d)
  BY <1>1, <1>2, <1>8, LeaveStays, Zenon
<1>13. StaysOK(new, cmds', joins, s)
  BY <1>1, <1>6, <1>7, <1>9, <1>12, Zenon DEF SessionOK, StaysOK
<1>14. FirmOK(new, cmds', joins, s)
  BY <1>1, <1>7, <1>9, Zenon DEF SessionOK, FirmOK, KeptOK
<1>15. cmds' \in Seq(Commands) /\ \A t \in Sessions \ {s} : SessionOK(sess[t], cmds', joins, t)
  BY <1>1, <1>2, <1>8, AppendIs, OneSent, Zenon
<1> QED BY <1>2, <1>3, <1>10, <1>11, <1>13, <1>14, <1>15, OneSession, Zenon DEF SessionOK

\* A dropped future: its command has no reader any more, and an armed guard
\* queues the leave or owes it.
LEMMA CancelInv ==
    ASSUME MemberInv, NEW s \in Sessions, Cancel(s)
    PROVE  MemberInv'
<1> DEFINE me == sess[s]
           q == Unheard(s)
           owed == IF Armed(s) /\ ~Room THEN me.owed \cup {me.c} ELSE me.owed
           new == [Idle(me) EXCEPT !.owed = owed]
           x == Command("Leave", s, me.c, FALSE)
<1>1. me \in SessionState /\ SessionOK(me, cmds, joins, s) /\ cmds \in Seq(Commands)
  BY Zenon DEF MemberInv
<1>2. /\ me.at \notin {"idle", "closing", "ended"} /\ UNCHANGED vars
      /\ Armed(s) /\ Room => cmds' = Append(q, x)
      /\ ~(Armed(s) /\ Room) => cmds' = q
  BY Zenon DEF Cancel
<1>3. sess' = [sess EXCEPT ![s] = new]
  BY <1>1, Zenon DEF Cancel, Idle, MemberInv, SessionState
<1>4. me.op \in {"Join", "Leave"} /\ me.c \in Channels /\ me.rest = <<>>
  BY <1>1, <1>2, Zenon DEF SessionOK, KeptOK, SessionState
<1>5. /\ new \in SessionState /\ new.at = "idle" /\ new.op = "None"
      /\ new.joined = me.joined /\ new.owed = owed /\ new.rest = me.rest
      /\ new.firm = me.firm
  BY <1>1, <1>4, Zenon DEF SessionState, Idle
<1>6. x \in Commands /\ x.s = s /\ x.op = "Leave" /\ x.c = me.c /\ ~x.heard
  BY <1>4, Zenon DEF Command, Commands
<1>7. Armed(s) <=> /\ me.op = "Join" /\ me.at \in {"asking", "waiting", "ok", "err"}
                   /\ me.c \notin me.joined
  BY Zenon DEF Armed
<1>8. /\ q \in Seq(Commands) /\ SameCommands(cmds, q) /\ NoneHeard(q, s)
      /\ \A he, t : t # s /\ HeardOK(he, cmds, t) => HeardOK(he, q, t)
  BY <1>1, UnheardIs
<1>9. \A t, c : /\ Stays(q, joins, t, c) <=> Stays(cmds, joins, t, c)
                /\ Leaves(q, t, c) <=> Leaves(cmds, t, c)
  BY <1>8, SameStays, Zenon
<1> HIDE DEF me, q, new, x
<1>10. KeptOK(new)
  BY <1>1, <1>4, <1>5, <1>7, Zenon DEF SessionOK, KeptOK
<1>11. \A t \in Sessions \ {s} : HeardOK(sess[t], cmds, t) /\ HeardOK(sess[t], q, t)
  BY <1>8, Zenon DEF MemberInv, SessionOK
<1>12. CASE Armed(s) /\ Room
  <2>1. cmds' = Append(q, x)
    BY <1>2, <1>12, Zenon
  <2>2. /\ \A t, c : Stays(cmds', joins, t, c) => Stays(cmds, joins, t, c)
        /\ ~Stays(cmds', joins, s, me.c)
        /\ \A t, c : Leaves(cmds', t, c) => Leaves(cmds, t, c) \/ (t = s /\ c = me.c)
    BY <1>6, <1>8, <1>9, <2>1, LeaveStays, Zenon
  <2>3. HeardOK(new, cmds', s)
    BY <1>6, <1>8, <2>1, AppendHeard, NobodyWaits, Zenon
  <2>4. StaysOK(new, cmds', joins, s)
    BY <1>1, <1>5, <1>12, <2>2, Zenon DEF SessionOK, StaysOK
  <2>5. FirmOK(new, cmds', joins, s)
    BY <1>1, <1>5, <1>7, <1>12, <2>2, Zenon DEF SessionOK, FirmOK, KeptOK
  <2>6. ASSUME NEW t \in Sessions \ {s}
        PROVE  SessionOK(sess[t], cmds', joins, t)
    <3>1. HeardOK(sess[t], cmds', t)
      BY <1>6, <1>8, <1>11, <2>1, AppendHeard, Zenon
    <3> QED BY <2>2, <3>1, OtherSession, Zenon DEF MemberInv
  <2>7. cmds' \in Seq(Commands)
    BY <1>6, <1>8, <2>1, AppendIs, Zenon
  <2> QED BY <1>2, <1>3, <1>10, <2>3, <2>4, <2>5, <2>6, <2>7, OneSession, Zenon DEF SessionOK
<1>13. CASE ~(Armed(s) /\ Room)
  <2>1. cmds' = q
    BY <1>2, <1>13, Zenon
  <2>2. HeardOK(new, cmds', s)
    BY <1>8, <2>1, NobodyWaits, Zenon
  <2>3. StaysOK(new, cmds', joins, s)
    BY <1>1, <1>5, <1>7, <1>9, <1>13, <2>1, Zenon DEF SessionOK, StaysOK
  <2>4. FirmOK(new, cmds', joins, s)
    BY <1>1, <1>5, <1>9, <2>1, Zenon DEF SessionOK, FirmOK
  <2>5. ASSUME NEW t \in Sessions \ {s}
        PROVE  SessionOK(sess[t], cmds', joins, t)
    BY <1>9, <1>11, <2>1, OtherSession, Zenon DEF MemberInv
  <2> QED BY <1>2, <1>3, <1>8, <1>10, <2>1, <2>2, <2>3, <2>4, <2>5, OneSession, Zenon DEF SessionOK
<1> QED BY <1>12, <1>13, Zenon

\* What `release_now` queues: leaves of the session, and its release; all of
\* them when they fit.
LEMMA ReleaseIs ==
    ASSUME NEW s, NEW leaves \in Seq(Channels), NEW first \in Seq(Commands), NEW last \in Commands,
           NEW all, LeavesOf(first, leaves, s), IsRelease(last, s), all = Append(first, last)
    PROVE  /\ all \in Seq(Commands) /\ Releases(all, s)
           /\ \A c \in Range(leaves) : Leaves(all, s, c)
<1>1. Len(leaves) \in Nat /\ DOMAIN leaves = 1..Len(leaves)
  OBVIOUS
<1>2. /\ all \in Seq(Commands) /\ DOMAIN all = 1..(Len(leaves) + 1)
      /\ \A i \in 1..Len(leaves) : all[i] = first[i]
      /\ all[Len(leaves) + 1] = last
  BY DEF LeavesOf
<1>3. ASSUME NEW i \in DOMAIN all
      PROVE  all[i].s = s /\ all[i].op # "Join" /\ ~all[i].heard
  <2>1. i \in 1..Len(leaves) \/ i = Len(leaves) + 1
    BY <1>1, <1>2
  <2>2. CASE i \in 1..Len(leaves)
    BY <1>2, <2>2, Zenon DEF LeavesOf, Is
  <2>3. CASE i = Len(leaves) + 1
    BY <1>2, <2>3, Zenon DEF IsRelease
  <2> QED BY <2>1, <2>2, <2>3, Zenon
<1>4. ASSUME NEW c \in Range(leaves)
      PROVE  Leaves(all, s, c)
  <2>1. PICK i \in 1..Len(leaves) : leaves[i] = c
    BY <1>1, Zenon DEF Range
  <2>2. i \in DOMAIN all /\ all[i] = first[i]
    BY <1>1, <1>2, <2>1
  <2> QED BY <2>1, <2>2, Zenon DEF Leaves, LeavesOf
<1> QED BY <1>2, <1>3, <1>4, Zenon DEF Releases

LEMMA FirstOnes ==
    ASSUME NEW s, NEW all \in Seq(Commands), Releases(all, s), NEW n \in Int, n <= Len(all),
           NEW y, y = SubSeq(all, 1, n)
    PROVE  y \in Seq(Commands) /\ Releases(y, s)
<1>1. Len(all) \in Nat /\ DOMAIN all = 1..Len(all) /\ \A i \in 1..n : all[i] \in Commands
  OBVIOUS
<1>2. /\ y \in Seq(Commands)
      /\ Len(y) = IF 1 <= n THEN n - 1 + 1 ELSE 0
      /\ \A i \in 1..(n - 1 + 1) : y[i] = all[1 + i - 1]
  BY <1>1
<1>3. DOMAIN y = 1..Len(y)
  BY <1>2
<1>4. \A i \in DOMAIN y : i \in DOMAIN all /\ y[i] = all[i]
  BY <1>1, <1>2, <1>3
<1> QED BY <1>2, <1>4, Zenon DEF Releases

LEMMA DropInv ==
    ASSUME Counting, MemberInv, NEW s \in Sessions, Drop(s)
    PROVE  MemberInv'
<1> DEFINE me == sess[s]
           leaves == InOrder(me.joined \cup me.owed)
           first == [i \in DOMAIN leaves |-> Command("Leave", s, leaves[i], FALSE)]
           last == Command("Release", s, NoChannel, FALSE)
           all == Append(first, last)
           fits == Len(cmds) + Len(all) <= Capacity
           y == IF fits THEN all ELSE SubSeq(all, 1, Capacity - Len(cmds))
           rest == IF fits THEN <<>> ELSE leaves
           new == [me EXCEPT !.at = "ended", !.firm = {}, !.joined = {}, !.owed = {},
                             !.rest = rest]
<1>1. me \in SessionState /\ SessionOK(me, cmds, joins, s) /\ cmds \in Seq(Commands)
  BY Zenon DEF MemberInv
<1>2. me.at \in {"idle", "closing"} /\ UNCHANGED vars /\ cmds' = cmds \o y
  BY Zenon DEF Drop, ChannelsToLeave
<1>3. sess' = [sess EXCEPT ![s] = new]
  BY <1>1, Zenon DEF Drop, ChannelsToLeave, MemberInv, SessionState
<1>4. me.joined \cup me.owed \in SUBSET Channels
  BY <1>1, Zenon DEF SessionState
<1>5. leaves \in Seq(Channels) /\ Range(leaves) = me.joined \cup me.owed
  BY <1>4, InOrderIs, Zenon
<1> HIDE DEF leaves
<1>6. first \in Seq(Commands) /\ LeavesOf(first, leaves, s)
  <2>1. Len(leaves) \in Nat /\ DOMAIN leaves = 1..Len(leaves) /\ \A i \in 1..Len(leaves) : leaves[i] \in Channels
    BY <1>5
  <2>2. \A c \in Channels : Command("Leave", s, c, FALSE) \in Commands
    BY Zenon DEF Command, Commands
  <2>3. first = [i \in 1..Len(leaves) |-> first[i]] /\ \A i \in 1..Len(leaves) : first[i] \in Commands
    BY <2>1, <2>2, Zenon
  <2>4. \A i \in 1..Len(leaves) : Is(first[i], "Leave", s, leaves[i]) /\ ~first[i].heard
    BY <2>1, Zenon DEF Command, Is
  <2> HIDE DEF first
  <2> QED BY <2>1, <2>3, <2>4 DEF LeavesOf
<1>7. last \in Commands /\ IsRelease(last, s)
  BY Zenon DEF Command, Commands, IsRelease
<1> HIDE DEF first, last
<1>8. Len(all) \in Nat /\ Len(cmds) \in Nat /\ Capacity \in Nat /\ all = Append(first, last)
  BY <1>1, <1>6, <1>7, MembershipAssumption
<1> HIDE DEF all
<1>9. /\ fits => y = all
      /\ ~fits => y = SubSeq(all, 1, Capacity - Len(cmds))
  BY Zenon
<1> HIDE DEF y
<1>10. ~fits => Capacity - Len(cmds) \in Int /\ Capacity - Len(cmds) < Len(all)
  BY <1>8
<1> HIDE DEF fits
<1>11. /\ y \in Seq(Commands) /\ Releases(y, s)
       /\ fits => \A c \in me.joined \cup me.owed : Leaves(y, s, c)
  <2>1. /\ all \in Seq(Commands) /\ Releases(all, s)
        /\ \A c \in Range(leaves) : Leaves(all, s, c)
    BY <1>5, <1>6, <1>7, <1>8, ReleaseIs, Zenon
  <2>2. CASE fits
    BY <1>5, <1>9, <2>1, <2>2, Zenon
  <2>3. CASE ~fits
    <3>1. Capacity - Len(cmds) \in Int /\ Capacity - Len(cmds) <= Len(all)
      BY <1>8, <1>10, <2>3
    <3>2. y = SubSeq(all, 1, Capacity - Len(cmds))
      BY <1>9, <2>3, Zenon
    <3> QED BY <2>1, <2>3, <3>1, <3>2, FirstOnes, Zenon
  <2> QED BY <2>2, <2>3, Zenon
<1>12. /\ rest \in Seq(Channels)
       /\ ~fits => Range(rest) = me.joined \cup me.owed
  BY <1>5
<1> HIDE DEF rest
<1>13. /\ new \in SessionState /\ new.at = "ended" /\ new.op = me.op /\ new.c = me.c
       /\ new.joined = {} /\ new.owed = {} /\ new.rest = rest /\ new.firm = {}
  BY <1>1, <1>12, Zenon DEF SessionState
<1> HIDE DEF me, new
<1>14. /\ cmds' \in Seq(Commands)
       /\ \A t, c : Stays(cmds', joins, t, c) => Stays(cmds, joins, t, c)
       /\ \A c : Leaves(y, s, c) => ~Stays(cmds', joins, s, c)
       /\ \A t, c : t # s => (Leaves(cmds', t, c) => Leaves(cmds, t, c))
       /\ NoneHeard(cmds, s) => NoneHeard(cmds', s)
       /\ \A he, t : t # s /\ HeardOK(he, cmds, t) => HeardOK(he, cmds', t)
  <2> DEFINE r == cmds'
  <2>1. r = cmds \o y
    BY <1>2, Zenon
  <2> HIDE DEF r
  <2>2. /\ r \in Seq(Commands)
        /\ \A j, t, c : Stays(r, j, t, c) => Stays(cmds, j, t, c)
        /\ \A j, c : Leaves(y, s, c) => ~Stays(r, j, s, c)
        /\ \A t, c : t # s => (Leaves(r, t, c) => Leaves(cmds, t, c))
        /\ NoneHeard(cmds, s) => NoneHeard(r, s)
        /\ \A he, t : t # s /\ HeardOK(he, cmds, t) => HeardOK(he, r, t)
    BY <1>1, <1>11, <2>1, ConcatStays, Zenon
  <2> QED BY <2>2, Zenon DEF r
<1>15. KeptOK(new)
  BY <1>13, Zenon DEF KeptOK
<1>16. HeardOK(new, cmds', s)
  BY <1>1, <1>2, <1>14, NobodyWaits, Zenon DEF SessionOK
<1>17. StaysOK(new, cmds', joins, s)
  <2>1. \A c \in Channels : Stays(cmds, joins, s, c) =>
            c \in me.joined \cup me.owed \cup Range(me.rest)
    BY <1>1, <1>2, Zenon DEF SessionOK, StaysOK
  <2>2. Range(me.rest) \subseteq me.joined \cup me.owed
    <3>1. CASE me.at = "idle"
      <4>1. me.rest = <<>>
        BY <1>1, <3>1, Zenon DEF SessionOK, KeptOK
      <4> QED BY <4>1 DEF Range
    <3>2. CASE me.at = "closing"
      BY <1>1, <3>2, Zenon DEF SessionOK, KeptOK
    <3> QED BY <1>2, <3>1, <3>2, Zenon
  <2>3. \A c \in Channels : Stays(cmds', joins, s, c) => c \in Range(rest)
    BY <1>11, <1>12, <1>14, <2>1, <2>2, Zenon
  <2> QED BY <1>13, <2>3, Zenon DEF StaysOK
<1>18. FirmOK(new, cmds', joins, s)
  BY <1>13, Zenon DEF FirmOK
<1>19. ASSUME NEW t \in Sessions \ {s}
       PROVE  SessionOK(sess[t], cmds', joins, t)
  <2>1. SessionOK(sess[t], cmds, joins, t) /\ HeardOK(sess[t], cmds', t)
    BY <1>14, Zenon DEF MemberInv, SessionOK
  <2> QED BY <1>14, <2>1, OtherSession, Zenon
<1> QED BY <1>2, <1>3, <1>14, <1>15, <1>16, <1>17, <1>18, <1>19, OneSession, Zenon DEF SessionOK
-----------------------------------------------------------------------------
(* The runtime task. *)

\* What running a command does to who has joined what.
Ran(cmd, j, k) ==
    /\ \A t, c : Member(k, t, c) => Member(j, t, c) \/ Is(cmd, "Join", t, c)
    /\ \A t, c : Is(cmd, "Leave", t, c) => ~Member(k, t, c)
    /\ \A t, c : Member(j, t, c) /\ ~Is(cmd, "Leave", t, c) => Member(k, t, c)

LEMMA JoinRan ==
    ASSUME NEW cmd, cmd.op = "Join", Join(cmd.c, cmd.s)
    PROVE  Ran(cmd, joins, joins') /\ Member(joins', cmd.s, cmd.c)
<1>1. joins' = MapPut(joins, cmd.c, Subscribers(cmd.c) \cup {cmd.s})
  BY Zenon DEF Join
<1>2. /\ DOMAIN joins' = DOMAIN joins \cup {cmd.c}
      /\ joins'[cmd.c] = Subscribers(cmd.c) \cup {cmd.s}
      /\ \A d \in DOMAIN joins \ {cmd.c} : joins'[d] = joins[d]
  BY <1>1, Zenon DEF MapPut
<1>3. \A t, c : Member(joins', t, c) <=> Member(joins, t, c) \/ (t = cmd.s /\ c = cmd.c)
  BY <1>2, Zenon DEF Member, Subscribers
<1> QED BY <1>3, Zenon DEF Ran, Is

LEMMA LeaveRan ==
    ASSUME RegistryOK, NEW cmd, cmd.op = "Leave", Leave(cmd.c, cmd.s)
    PROVE  Ran(cmd, joins, joins')
<1> DEFINE c == cmd.c
           s == cmd.s
<1>1. joins' = WithoutJoin(c, s)
  BY Zenon DEF Leave
<1> HIDE DEF c, s
<1>2. /\ Subscribers(c) \subseteq {s} => DOMAIN joins' = DOMAIN joins \ {c}
      /\ ~(Subscribers(c) \subseteq {s}) => DOMAIN joins' = DOMAIN joins
      /\ c \in DOMAIN joins' => joins'[c] = joins[c] \ {s}
      /\ \A d \in DOMAIN joins \ {c} : d \in DOMAIN joins' /\ joins'[d] = joins[d]
  BY <1>1, WithoutJoinIs, Zenon
<1>3. \A t, d : Member(joins', t, d) <=> Member(joins, t, d) /\ ~(t = s /\ d = c)
  BY <1>2, Zenon DEF Member, Subscribers
<1> QED BY <1>3, Zenon DEF Ran, Is, c, s

\* A session whose command was run, or that had none at the head, with
\* nobody waiting for it.
LEMMA TailHeard ==
    ASSUME NEW q \in Seq(Commands), q # <<>>, NEW r, r = Tail(q), NEW me, NEW t,
           HeardOK(me, q, t)
    PROVE  /\ HeardOK(me, r, t)
           /\ Head(q).s = t /\ Head(q).heard => \A i \in DOMAIN r : r[i].s # t
<1>1. /\ r \in Seq(Commands) /\ Len(q) \in Nat \ {0}
      /\ DOMAIN q = 1..Len(q) /\ DOMAIN r = 1..(Len(q) - 1)
      /\ \A i \in DOMAIN r : i + 1 \in DOMAIN q /\ r[i] = q[i + 1]
      /\ Head(q) = q[1]
  OBVIOUS
<1>2. Head(q).s = t /\ Head(q).heard => \A i \in DOMAIN r : r[i].s # t
  BY <1>1 DEF HeardOK
<1>3. HeardOK(me, r, t)
  <2> SUFFICES ASSUME NEW i \in DOMAIN r, r[i].s = t, r[i].heard
               PROVE  /\ \/ me.at = "waiting" /\ r[i].op = me.op /\ r[i].c = me.c
                         \/ me.at = "paying" /\ r[i].op = "Leave"
                      /\ \A n \in DOMAIN r : n > i => r[n].s # t
    BY Zenon DEF HeardOK
  <2>1. i + 1 \in DOMAIN q /\ r[i] = q[i + 1]
    BY <1>1, Zenon
  <2>2. \A n \in DOMAIN q : n > i + 1 => q[n].s # t
    BY <2>1, Zenon DEF HeardOK
  <2>3. \A n \in DOMAIN r : n > i => n + 1 > i + 1
    BY <1>1
  <2>4. \A n \in DOMAIN r : n > i => r[n].s # t
    BY <1>1, <2>2, <2>3, Zenon
  <2> QED BY <2>1, <2>4, Zenon DEF HeardOK
<1> QED BY <1>2, <1>3, Zenon

\* What a session it does not answer sees of a command run.
LEMMA RunUnseen ==
    ASSUME MemberInv, cmds # <<>>, NEW r, r = Tail(cmds), NEW k, Ran(Head(cmds), joins, k),
           NEW t \in Sessions
    PROVE  SessionOK(sess[t], r, k, t)
<1>1. cmds \in Seq(Commands) /\ SessionOK(sess[t], cmds, joins, t)
  BY Zenon DEF MemberInv
<1>2. HeardOK(sess[t], r, t)
  BY <1>1, TailHeard, Zenon DEF SessionOK
<1>3. ASSUME NEW c
      PROVE  /\ Stays(r, k, t, c) => Stays(cmds, joins, t, c)
             /\ Leaves(r, t, c) => Leaves(cmds, t, c)
  <2>1. /\ Member(k, t, c) => Member(joins, t, c) \/ Is(Head(cmds), "Join", t, c)
        /\ Is(Head(cmds), "Leave", t, c) => ~Member(k, t, c)
    BY Zenon DEF Ran
  <2> QED BY <1>1, <2>1, TailStays, Zenon
<1>4. ASSUME NEW c
      PROVE  Member(joins, t, c) /\ ~Leaves(cmds, t, c) => Member(k, t, c)
  <2>1. Is(Head(cmds), "Leave", t, c) => Leaves(cmds, t, c)
    BY <1>1 DEF Leaves
  <2> QED BY <2>1, Zenon DEF Ran
<1> QED BY <1>1, <1>2, <1>3, <1>4, OtherSession, Zenon

\* The session that waited for the command gets its answer.
LEMMA RunAnswered ==
    ASSUME MemberInv, cmds # <<>>, NEW cmd, cmd = Head(cmds), cmd.heard,
           NEW k, Ran(cmd, joins, k), NEW word \in {"ok", "err", "paid"},
           cmd.op = "Join" => \/ word = "ok" /\ Member(k, cmd.s, cmd.c)
                              \/ word = "err" /\ ~Member(k, cmd.s, cmd.c),
           cmd.op = "Leave" /\ sess[cmd.s].at = "paying" => word = "paid",
           cmd.op = "Leave" /\ sess[cmd.s].at # "paying" => word = "ok"
    PROVE  SessionOK([sess[cmd.s] EXCEPT !.at = word], Tail(cmds), k, cmd.s)
<1> DEFINE s == cmd.s
           me == sess[s]
           new == [me EXCEPT !.at = word]
           r == Tail(cmds)
<1>1. cmds \in Seq(Commands) /\ cmd \in Commands
  BY DEF MemberInv
<1>2. s \in Sessions /\ cmd.op \in {"Join", "Leave"} /\ cmd.c \in Channels
  BY <1>1, Zenon DEF Commands
<1>3. me \in SessionState /\ SessionOK(me, cmds, joins, s) /\ SessionOK(me, r, k, s)
  BY <1>2, RunUnseen, Zenon DEF MemberInv
<1>4. \/ me.at = "waiting" /\ cmd.op = me.op /\ cmd.c = me.c
      \/ me.at = "paying" /\ cmd.op = "Leave"
  <2>1. 1 \in DOMAIN cmds /\ cmds[1] = cmd
    BY <1>1
  <2> QED BY <1>3, <2>1, Zenon DEF SessionOK, HeardOK
<1>5. /\ new \in SessionState /\ new.at = word /\ new.op = me.op /\ new.c = me.c
      /\ new.joined = me.joined /\ new.owed = me.owed /\ new.rest = me.rest
      /\ new.firm = me.firm
  BY <1>3, Zenon DEF SessionState
<1>6. \A i \in DOMAIN r : r[i].s # s
  BY <1>1, <1>3, TailHeard, Zenon DEF SessionOK
<1>7. \A c : ~Leaves(r, s, c) /\ (Stays(r, k, s, c) => Member(k, s, c))
  BY <1>6, Zenon DEF Leaves, Stays, Is
<1>8. cmd.op = "Leave" => ~Member(k, s, cmd.c)
  BY Zenon DEF Ran, Is
<1> HIDE DEF me, new, r, s
<1>9. HeardOK(new, r, s)
  BY <1>6, Zenon DEF HeardOK
<1>10. CASE me.at = "paying" /\ cmd.op = "Leave"
  <2>1. word = "paid"
    BY <1>10, Zenon DEF me, s
  <2>2. KeptOK(new)
    BY <1>3, <1>5, <1>10, <2>1, Zenon DEF SessionOK, KeptOK
  <2>3. StaysOK(new, r, k, s)
    BY <1>3, <1>5, <1>10, <2>1, Zenon DEF SessionOK, StaysOK
  <2>4. FirmOK(new, r, k, s)
    BY <1>3, <1>5, <1>10, <2>1, Zenon DEF SessionOK, FirmOK
  <2> QED BY <1>9, <2>2, <2>3, <2>4, Zenon DEF SessionOK, new, me, r, s
<1>11. CASE me.at = "waiting" /\ cmd.op = me.op /\ cmd.c = me.c
  <2>1. /\ word \in {"ok", "err"}
        /\ me.op = "Join" /\ word = "ok" => Member(k, s, me.c)
        /\ me.op = "Join" /\ word = "err" => ~Member(k, s, me.c)
        /\ me.op = "Leave" => ~Member(k, s, me.c)
        /\ me.op \in {"Join", "Leave"}
    BY <1>2, <1>8, <1>11, Zenon DEF me, s
  <2>2. KeptOK(new)
    BY <1>3, <1>5, <1>11, <2>1, Zenon DEF SessionOK, KeptOK
  <2>3. StaysOK(new, r, k, s)
    BY <1>3, <1>5, <1>7, <1>11, <2>1, Zenon DEF SessionOK, StaysOK
  <2>4. FirmOK(new, r, k, s)
    BY <1>3, <1>5, <1>7, <1>11, <2>1, Zenon DEF SessionOK, FirmOK
  <2> QED BY <1>9, <2>2, <2>3, <2>4, Zenon DEF SessionOK, new, me, r, s
<1> QED BY <1>4, <1>10, <1>11, Zenon

\* Both together: the runtime task takes a command and answers.
LEMMA RunInv ==
    ASSUME MemberInv, cmds # <<>>, NEW cmd, cmd = Head(cmds), cmds' = Tail(cmds), BroadcastInv',
           Ran(cmd, joins, joins'), NEW word \in {"ok", "err", "paid"},
           sess' = IF cmd.heard THEN [sess EXCEPT ![cmd.s].at = word] ELSE sess,
           cmd.op = "Join" => \/ word = "ok" /\ Member(joins', cmd.s, cmd.c)
                              \/ word = "err" /\ ~Member(joins', cmd.s, cmd.c),
           cmd.op = "Leave" /\ sess[cmd.s].at = "paying" => word = "paid",
           cmd.op = "Leave" /\ sess[cmd.s].at # "paying" => word = "ok"
    PROVE  MemberInv'
<1>1. cmds \in Seq(Commands) /\ cmds' \in Seq(Commands) /\ cmd \in Commands /\ cmd.s \in Sessions
  <2>1. cmds \in Seq(Commands)
    BY Zenon DEF MemberInv
  <2>2. cmds' \in Seq(Commands) /\ cmd \in Commands
    BY <2>1
  <2> QED BY <2>1, <2>2, Zenon DEF Commands
<1>2. \A t \in Sessions : SessionOK(sess[t], cmds', joins', t)
  BY RunUnseen, Zenon
<1>3. CASE ~cmd.heard
  BY <1>1, <1>2, <1>3, Zenon DEF MemberInv
<1>4. CASE cmd.heard
  <2> DEFINE new == [sess[cmd.s] EXCEPT !.at = word]
  <2>1. SessionOK(new, cmds', joins', cmd.s)
    BY <1>4, RunAnswered, Zenon
  <2>2. sess' = [sess EXCEPT ![cmd.s] = new]
    BY <1>1, <1>4, Zenon DEF MemberInv, SessionState
  <2>3. new \in SessionState
    BY <2>1, Zenon DEF SessionOK, KeptOK
  <2> HIDE DEF new
  <2>4. /\ sess' \in [Sessions -> SessionState] /\ sess'[cmd.s] = new
        /\ \A t \in Sessions \ {cmd.s} : sess'[t] = sess[t]
    BY <1>1, <2>2, <2>3, Zenon DEF MemberInv
  <2>5. \A t \in Sessions : SessionOK(sess'[t], cmds', joins', t)
    BY <1>2, <2>1, <2>4, Zenon
  <2> QED BY <1>1, <2>4, <2>5, Zenon DEF MemberInv
<1> QED BY <1>3, <1>4, Zenon

LEMMA RunCommandInv ==
    ASSUME Counting, MemberInv, RunCommand
    PROVE  MemberInv'
<1> DEFINE cmd == Head(cmds)
           answer(word) == IF cmd.heard THEN [sess EXCEPT ![cmd.s].at = word] ELSE sess
<1>1. cmds # <<>> /\ cmds' = Tail(cmds)
  BY Zenon DEF RunCommand
<1>2. BroadcastInv /\ RegistryOK /\ cmd \in Commands
  BY <1>1 DEF MemberInv, BroadcastInv
<1>3. /\ cmd.s \in Sessions
      /\ cmd.op \in {"Join", "Leave"} => cmd.c \in Channels
      /\ cmd.op = "Release" => ~cmd.heard
  BY <1>2, Zenon DEF Commands
<1>4. CASE cmd.op = "Join" /\ Join(cmd.c, cmd.s) /\ sess' = answer("ok")
  <2>1. BroadcastInv' /\ Ran(cmd, joins, joins') /\ Member(joins', cmd.s, cmd.c)
    BY <1>2, <1>3, <1>4, JoinInv, JoinRan, Zenon
  <2> QED BY <1>1, <1>4, <2>1, RunInv, Zenon
<1>5. CASE cmd.op = "Join" /\ JoinRefused(cmd.c, cmd.s) /\ sess' = answer("err")
  <2>1. BroadcastInv' /\ joins' = joins
    BY <1>2, <1>5, JoinRefusedInv, Zenon
  <2>2. ~Member(joins', cmd.s, cmd.c)
    BY <1>2, <1>5, <2>1, Zenon DEF JoinRefused, RegistryOK, Member
  <2>3. Ran(cmd, joins, joins')
    BY <1>5, <2>1, Zenon DEF Ran, Is
  <2> QED BY <1>1, <1>5, <2>1, <2>2, <2>3, RunInv, Zenon
<1>6. CASE cmd.op = "Join" /\ JoinDenied(cmd.c, cmd.s) /\ sess' = answer("err") /\ UNCHANGED vars
  <2>1. BroadcastInv' /\ joins' = joins
    BY <1>2, <1>6, QuietInv, Zenon DEF vars, Follows
  <2>2. ~Member(joins', cmd.s, cmd.c)
    BY <1>6, <2>1, Zenon DEF JoinDenied, Member
  <2>3. Ran(cmd, joins, joins')
    BY <1>6, <2>1, Zenon DEF Ran, Is
  <2> QED BY <1>1, <1>6, <2>1, <2>2, <2>3, RunInv, Zenon
<1>7. CASE /\ cmd.op = "Leave" /\ Leave(cmd.c, cmd.s)
           /\ sess' = answer(IF sess[cmd.s].at = "paying" THEN "paid" ELSE "ok")
  <2>1. BroadcastInv' /\ Ran(cmd, joins, joins')
    BY <1>2, <1>7, LeaveInv, LeaveRan, Zenon
  <2>2. CASE sess[cmd.s].at = "paying"
    BY <1>1, <1>7, <2>1, <2>2, RunInv, Zenon
  <2>3. CASE sess[cmd.s].at # "paying"
    BY <1>1, <1>7, <2>1, <2>3, RunInv, Zenon
  <2> QED BY <2>2, <2>3, Zenon
<1>8. CASE cmd.op = "Release" /\ UNCHANGED <<vars, sess>>
  <2>1. BroadcastInv' /\ joins' = joins
    BY <1>2, <1>8, QuietInv, Zenon DEF vars, Follows
  <2>2. Ran(cmd, joins, joins')
    BY <1>8, <2>1, Zenon DEF Ran, Is
  <2> QED BY <1>1, <1>3, <1>8, <2>1, <2>2, RunInv, Zenon
<1> QED BY <1>4, <1>5, <1>6, <1>7, <1>8, Zenon DEF RunCommand

\* A reconfiguration takes nobody out of a channel.
LEMMA ReconfigureInv ==
    ASSUME Counting, MemberInv, Reconfigure
    PROVE  MemberInv'
<1>1. UNCHANGED <<cmds, sess>>
  BY Zenon DEF Reconfigure
<1>2. BroadcastInv' /\ joins' = joins
  <2>1. PICK want \in Wanted, cap \in Ceilings :
           (\E size \in Bounds : ConfigureBroadcast(want, cap, size)) \/ ConfigureDenied(want, cap)
    BY Zenon DEF Reconfigure
  <2>2. ASSUME NEW size \in Bounds, ConfigureBroadcast(want, cap, size)
        PROVE  BroadcastInv' /\ joins' = joins
    BY <2>2, ConfigureInv, Zenon DEF MemberInv, ConfigureBroadcast
  <2>3. CASE ConfigureDenied(want, cap)
    BY <2>3, QuietInv, Zenon DEF MemberInv, ConfigureDenied, vars, Follows
  <2> QED BY <2>1, <2>2, <2>3, Zenon
<1> QED BY <1>1, <1>2, Zenon DEF MemberInv

LEMMA MemberInitInv == Counting /\ MemberInit => MemberInv
<1> SUFFICES ASSUME Counting, MemberInit PROVE MemberInv
  BY Zenon
<1>1. BroadcastInv /\ joins = EmptyMap
  BY InitInv, Zenon DEF MemberInit, Init
<1>2. cmds = <<>> /\ cmds \in Seq(Commands)
  BY DEF MemberInit
<1>3. sess \in [Sessions -> SessionState]
  BY DEF MemberInit, SessionState
<1>4. ASSUME NEW s \in Sessions
      PROVE  SessionOK(sess[s], cmds, joins, s)
  <2> DEFINE me == sess[s]
  <2>1. /\ me \in SessionState /\ me.at = "idle" /\ me.op = "None" /\ me.joined = {}
        /\ me.owed = {} /\ me.rest = <<>> /\ me.firm = {}
    BY <1>3, Zenon DEF MemberInit
  <2>2. DOMAIN joins = {}
    BY <1>1, Zenon DEF EmptyMap
  <2> HIDE DEF me
  <2>3. \A c : ~Stays(cmds, joins, s, c)
    BY <1>2, <2>2 DEF Stays, Member
  <2>4. KeptOK(me) /\ HeardOK(me, cmds, s)
    BY <1>2, <2>1 DEF KeptOK, HeardOK
  <2>5. StaysOK(me, cmds, joins, s) /\ FirmOK(me, cmds, joins, s)
    BY <2>1, <2>3, Zenon DEF StaysOK, FirmOK
  <2> QED BY <2>4, <2>5, Zenon DEF SessionOK, me
<1> QED BY <1>1, <1>2, <1>3, <1>4, Zenon DEF MemberInv

LEMMA MemberNextInv == Counting /\ MemberInv /\ [MemberNext]_memberVars => MemberInv'
<1> SUFFICES ASSUME Counting, MemberInv, [MemberNext]_memberVars PROVE MemberInv'
  BY Zenon
<1>1. ASSUME NEW s \in Sessions, SessionStep(s)
      PROVE  MemberInv'
  <2>1. ASSUME NEW op \in {"Join", "Leave"}, NEW c \in Channels, Call(s, op, c)
        PROVE  MemberInv'
    BY <2>1, CallInv, Zenon
  <2> QED BY <1>1, <2>1, SendOwedLeavesInv, OwedLeaveSentInv, AskInv, RecordInv, CancelInv,
             CloseInv, DropInv, SendRestInv, ClosedInv, Zenon DEF SessionStep
<1>2. CASE UNCHANGED memberVars
  <2>1. BroadcastInv'
    BY <1>2, QuietInv, Zenon DEF MemberInv, memberVars, vars, Follows
  <2> QED BY <1>2, <2>1, Zenon DEF MemberInv, memberVars, vars
<1> QED BY <1>1, <1>2, RunCommandInv, ReconfigureInv, Zenon DEF MemberNext

-----------------------------------------------------------------------------
(* The theorems. *)

INSTANCE FiniteSetTheorems

LEMMA CountingHolds == Counting
<1>1. ASSUME NEW S, IsFiniteSet(S)
      PROVE  /\ Cardinality(S) \in Nat
             /\ \E f : f \in Injection(1..Cardinality(S), S)
  BY <1>1, FS_CardinalityType, Zenon DEF ExistsBijection, Bijection
<1>2. IsFiniteSet({}) /\ Cardinality({}) = 0
  BY FS_EmptySet, Zenon
<1>3. ASSUME NEW x
      PROVE  IsFiniteSet({x}) /\ Cardinality({x}) = 1
  BY FS_Singleton, Zenon
<1>4. ASSUME NEW S, NEW T, IsFiniteSet(S), T \subseteq S
      PROVE  /\ IsFiniteSet(T) /\ Cardinality(T) <= Cardinality(S)
             /\ Cardinality(T) = Cardinality(S) => S = T
  BY <1>4, FS_Subset, Zenon
<1>5. ASSUME NEW S, NEW x, IsFiniteSet(S), x \notin S
      PROVE  Cardinality(S \cup {x}) = Cardinality(S) + 1
  BY <1>5, FS_AddElement, Zenon
<1>6. ASSUME NEW S, IsFiniteSet(S), NEW f \in Injection(1..Cardinality(S), S)
      PROVE  f \in Surjection(1..Cardinality(S), S)
  <2>1. Cardinality(S) \in Nat
    BY <1>1, <1>6, Zenon
  <2>2. Cardinality(1..Cardinality(S)) = Cardinality(S)
    BY <2>1, FS_Interval
  <2> QED BY <1>6, <2>2, FS_Injection, Zenon
<1> QED BY <1>1, <1>2, <1>3, <1>4, <1>5, <1>6, Zenon DEF Counting

\* The inductive invariant of the broadcast plane holds in every reachable
\* state of the runtime task (commands.rs, broadcast.rs).
THEOREM BroadcastInvariant == Spec => []BroadcastInv
<1> QED BY CountingHolds, InitInv, NextInv, PTL DEF Spec

\* Mesh subscriptions, topic mappings and session queues follow the registry
\* (`SwarmCommand::Join`, `Leave`, `ConfigureBroadcast`).
THEOREM MeshAlwaysFollows == Spec => []MeshFollowsRegistry
<1>1. BroadcastInv => MeshFollowsRegistry
  BY Zenon DEF BroadcastInv
<1> QED BY <1>1, BroadcastInvariant, PTL

\* The subscription ceiling is never passed (`SubscriptionRegistry::join`,
\* `configure`).
THEOREM CeilingHolds == Spec => []WithinCeiling
<1>1. BroadcastInv => WithinCeiling
  BY Zenon DEF BroadcastInv
<1> QED BY <1>1, BroadcastInvariant, PTL

\* A message the node accepts is the newest in the queue of every session
\* joined at that moment but its publisher, however full the queues are
\* (`admit_local_broadcast`, `SessionQueues::push`).
THEOREM AcceptedAlwaysReaches == Spec => AcceptedReachesSubscribers
BY CountingHolds, ReachStep, BroadcastInvariant, QueuesInvariant, PTL DEF Spec, AcceptedReachesSubscribers

\* While the cache has room for every key, no session has one message twice
\* in its queue within the time the cache remembers it, over every order of
\* publishing, redelivery, joining again and draining
\* (`admit_local_broadcast`, `DedupCache`).
THEOREM OnceForEachSession ==
    ASSUME CacheHoldsAll
    PROVE  Spec => []OncePerSession
<1>1. Init => OnceInv
  BY DEF Init, OnceInv, QueuesOK, EntriesOK, NewCache, EmptyMap
<1>2. OnceInv => OncePerSession
  <2> SUFFICES ASSUME OnceInv, NEW s \in DOMAIN queues PROVE Spaced(queues[s]) /\ DOMAIN queues[s] = 1..Len(queues[s])
    BY Zenon DEF OncePerSession, Spaced
  <2> QED BY DEF OnceInv, OnceOK, QueuesOK
<1> QED BY <1>1, <1>2, CountingHolds, OnceStep, PTL DEF Spec

\* The inductive invariant of the sessions holds in every reachable state
\* (session.rs and the runtime task's commands.rs).
THEOREM MemberInvariant == MemberSpec => []MemberInv
<1> QED BY CountingHolds, MemberInitInv, MemberNextInv, PTL DEF MemberSpec

\* However calls are cancelled and sessions dropped, every join the substrate
\* holds is one somebody will leave or still wants (session.rs, `JoinGuard`,
\* `send_owed_leaves`, `release_now`).
THEOREM JoinsAreAccountedFor == MemberSpec => []EveryJoinIsAccountedFor
<1>1. MemberInv => EveryJoinIsAccountedFor
  <2> SUFFICES ASSUME MemberInv, NEW c \in DOMAIN joins, NEW s \in joins[c]
               PROVE  c \in sess[s].joined \cup sess[s].owed \cup {sess[s].c}
                            \cup Range(sess[s].rest) \cup ToBeLeft(s)
    BY Zenon DEF EveryJoinIsAccountedFor
  <2>1. c \in Channels /\ s \in Sessions /\ Member(joins, s, c)
    BY Zenon DEF MemberInv, BroadcastInv, RegistryOK, Member
  <2>2. CASE Leaves(cmds, s, c)
    BY <2>2, Zenon DEF Leaves, Is, ToBeLeft
  <2>3. CASE ~Leaves(cmds, s, c)
    <3>1. Stays(cmds, joins, s, c)
      BY <2>1, <2>3, Zenon DEF Stays
    <3> QED BY <2>1, <3>1, Zenon DEF MemberInv, SessionOK, StaysOK
  <2> QED BY <2>2, <2>3, Zenon
<1> QED BY <1>1, MemberInvariant, PTL

\* No late leave of a cancelled call undoes a join that was answered
\* (session.rs, `join` after `JoinGuard::drop`).
THEOREM AnsweredJoinsAlwaysHold == MemberSpec => []AnsweredJoinsHold
<1>1. MemberInv => AnsweredJoinsHold
  <2> SUFFICES ASSUME MemberInv, NEW s \in Sessions, NEW c \in sess[s].firm
               PROVE  s \in Subscribers(c) /\ c \notin ToBeLeft(s)
    BY Zenon DEF AnsweredJoinsHold
  <2>1. Member(joins, s, c) /\ ~Leaves(cmds, s, c)
    BY Zenon DEF MemberInv, SessionOK, FirmOK
  <2>2. s \in Subscribers(c)
    BY <2>1, Zenon DEF Member, Subscribers
  <2>3. c \notin ToBeLeft(s)
    BY <2>1, Zenon DEF Leaves, Is, ToBeLeft
  <2> QED BY <2>2, <2>3, Zenon
<1> QED BY <1>1, MemberInvariant, PTL

\* The sessions implement the broadcast plane: whatever they do, the runtime
\* task sees a sequence of joins, leaves and configurations `Spec` allows.
THEOREM SessionsImplementPlane == MemberSpec => Spec
<1>1. MemberInit => Init
  BY Zenon DEF MemberInit
<1>2. MemberInv /\ [MemberNext]_memberVars => [Next]_vars
  <2> SUFFICES ASSUME MemberInv, [MemberNext]_memberVars PROVE [Next]_vars
    BY Zenon
  <2>1. ASSUME NEW s, SessionStep(s)
        PROVE  UNCHANGED vars
    <3>1. ASSUME NEW op, NEW c, Call(s, op, c) PROVE UNCHANGED vars
      BY <3>1, Zenon DEF Call
    <3>2. CASE SendOwedLeaves(s) \/ OwedLeaveSent(s) \/ Ask(s) \/ Record(s)
      BY <3>2, Zenon DEF SendOwedLeaves, OwedLeaveSent, Ask, Record
    <3>3. CASE Cancel(s) \/ Close(s) \/ Drop(s) \/ SendRest(s) \/ Closed(s)
      BY <3>3, Zenon DEF Cancel, Close, Drop, SendRest, Closed
    <3> QED BY <2>1, <3>1, <3>2, <3>3, Zenon DEF SessionStep
  <2>2. CASE RunCommand
    <3> DEFINE cmd == Head(cmds)
    <3>1. cmds # <<>> /\ cmd \in Commands
      BY <2>2 DEF RunCommand, MemberInv
    <3>2. cmd.s \in Sessions /\ (cmd.op \in {"Join", "Leave"} => cmd.c \in Channels)
      BY <3>1, Zenon DEF Commands
    <3>3. \/ /\ cmd.op \in {"Join", "Leave"}
             /\ Join(cmd.c, cmd.s) \/ JoinRefused(cmd.c, cmd.s) \/ Leave(cmd.c, cmd.s)
          \/ UNCHANGED vars
      BY <2>2, Zenon DEF RunCommand
    <3> HIDE DEF cmd
    <3> QED BY <3>2, <3>3, Zenon DEF Next
  <2>3. CASE Reconfigure
    BY <2>3, Zenon DEF Reconfigure, Next
  <2>4. CASE UNCHANGED memberVars
    BY <2>4, Zenon DEF memberVars
  <2> QED BY <2>1, <2>2, <2>3, <2>4, Zenon DEF MemberNext
<1> QED BY <1>1, <1>2, MemberInvariant, PTL DEF MemberSpec, Spec
=============================================================================
