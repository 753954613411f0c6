------------------------ MODULE EndpointLeasesProofs ------------------------
(***************************************************************************)
(* Proofs about EndpointLeases, and about DirectInbound, which implements  *)
(* it: for every set of endpoints, sessions and messages and every bound.  *)
(***************************************************************************)
EXTENDS DirectInbound, TLAPS

\* The strengthening: what a session is still owed is about leases older
\* than the one it holds now, so a further notice keeps the order.
NoticesOlder ==
    \A s \in Sessions, e \in DOMAIN leases :
        leases[e].owner = s =>
            \A i \in 1..Len(notices[s]) : notices[s][i].epoch < leases[e].epoch

LeaseInv ==
    /\ LeaseTypeOK
    /\ LeaseExclusive
    /\ QueueOpenIffLeased
    /\ NoInheritedMail
    /\ NoticesAreTrue
    /\ NoticesOlder
    /\ DefaultUsable

-----------------------------------------------------------------------------
(* Facts about maps. *)

\* Inserting a value of the right type keeps a map's type.
LEMMA MapPutType ==
    ASSUME NEW K, NEW V, NEW f, IsMap(f, K, V), NEW k \in K, NEW v \in V
    PROVE  IsMap(MapPut(f, k, v), K, V)
BY DEF IsMap, MapPut

\* Removing keys keeps a map's type.
LEMMA MapDropType ==
    ASSUME NEW K, NEW V, NEW f, IsMap(f, K, V), NEW S
    PROVE  IsMap(MapDrop(f, S), K, V)
BY DEF IsMap, MapDrop

\* The empty map has every map type.
LEMMA EmptyMapType ==
    ASSUME NEW K, NEW V
    PROVE  IsMap(EmptyMap, K, V) /\ DOMAIN EmptyMap = {}
BY DEF IsMap, EmptyMap

-----------------------------------------------------------------------------
(* Initially the invariant holds. *)

LEMMA LeaseInitInv == LeaseInit => LeaseInv
<1> SUFFICES ASSUME LeaseInit PROVE LeaseInv
  OBVIOUS
<1> USE LeaseAssumption DEF LeaseInit
<1>1. LeaseTypeOK
  <2>1. IsMap(endpoints, Endpoints, RegisteredEndpoint) /\ IsMap(leases, Endpoints, ActiveLease)
    BY EmptyMapType
  <2>2. IsMap(queues, Endpoints, [events : Seq(DirectEvent), bound : Nat])
    BY EmptyMapType
  <2> QED BY <2>1, <2>2 DEF LeaseTypeOK
<1>2. DOMAIN leases = {} /\ DOMAIN queues = {}
  BY EmptyMapType
<1>3. LeaseExclusive /\ QueueOpenIffLeased /\ NoInheritedMail /\ NoticesOlder /\ DefaultUsable
  BY <1>2 DEF LeaseExclusive, QueueOpenIffLeased, NoInheritedMail, NoticesOlder, DefaultUsable
<1>4. NoticesAreTrue
  BY DEF NoticesAreTrue
<1> QED BY <1>1, <1>3, <1>4 DEF LeaseInv

-----------------------------------------------------------------------------
(* Every command keeps it. *)

LEMMA ConfigureInv ==
    ASSUME LeaseInv, NEW config \in Configurations, Configure(config)
    PROVE  LeaseInv'
<1> USE LeaseAssumption DEF Configure, IsConfiguration
<1>1. DOMAIN leases' = {} /\ DOMAIN queues' = {}
  BY EmptyMapType
<1>2. LeaseTypeOK'
  <2>1. IsMap(endpoints', Endpoints, RegisteredEndpoint)
    OBVIOUS
  <2>2. IsMap(leases', Endpoints, ActiveLease)
    BY EmptyMapType
  <2>3. IsMap(queues', Endpoints, [events : Seq(DirectEvent), bound : Nat])
    BY EmptyMapType
  <2> QED BY <2>1, <2>2, <2>3 DEF LeaseTypeOK, LeaseInv, IsMap
<1>3. (LeaseExclusive /\ QueueOpenIffLeased /\ NoInheritedMail /\ NoticesOlder)'
  BY <1>1 DEF LeaseExclusive, QueueOpenIffLeased, NoInheritedMail, NoticesOlder
<1>4. NoticesAreTrue'
  BY <1>1 DEF NoticesAreTrue, LeaseInv
<1>5. DefaultUsable'
  BY DEF DefaultUsable
<1> QED BY <1>2, <1>3, <1>4, <1>5 DEF LeaseInv

LEMMA ClaimInv ==
    ASSUME LeaseInv, NEW s \in Sessions, NEW e \in Endpoints, NEW k \in Kinds,
           Claim(s, e, k)
    PROVE  LeaseInv'
<1> DEFINE lease == [owner |-> s, epoch |-> minted + 1, kind |-> k]
           queue == [events |-> <<>>, bound |-> IF queueBound = 0 THEN 1 ELSE queueBound]
<1>1. minted \in Nat /\ queueBound \in Nat
  BY DEF LeaseInv, LeaseTypeOK
<1>2. /\ e \notin DOMAIN leases
      /\ leases' = MapPut(leases, e, lease)
      /\ queues' = MapPut(queues, e, queue)
      /\ minted' = minted + 1
      /\ UNCHANGED <<endpoints, default, queueBound, notices>>
  BY DEF Claim, MayClaim, OpenQueue
<1>3. lease \in ActiveLease /\ queue \in [events : Seq(DirectEvent), bound : Nat]
  BY <1>1 DEF ActiveLease
<1>4. /\ DOMAIN leases' = DOMAIN leases \cup {e}
      /\ leases'[e] = lease
      /\ \A x \in DOMAIN leases : leases'[x] = leases[x]
  BY <1>2 DEF MapPut
<1>5. /\ DOMAIN queues' = DOMAIN queues \cup {e}
      /\ queues'[e] = queue
      /\ \A x \in DOMAIN leases : queues'[x] = queues[x]
  BY <1>2 DEF LeaseInv, QueueOpenIffLeased, MapPut
<1>6. LeaseTypeOK'
  <2>1. IsMap(leases', Endpoints, ActiveLease)
    BY <1>2, <1>3, MapPutType DEF LeaseInv, LeaseTypeOK
  <2>2. IsMap(queues', Endpoints, [events : Seq(DirectEvent), bound : Nat])
    BY Zenon, <1>2, <1>3, MapPutType DEF LeaseInv, LeaseTypeOK
  <2> QED BY <1>1, <1>2, <2>1, <2>2 DEF LeaseInv, LeaseTypeOK
<1>7. LeaseExclusive'
  BY <1>1, <1>2, <1>4 DEF LeaseInv, LeaseExclusive, Claim, MayClaim
<1>8. QueueOpenIffLeased'
  BY <1>4, <1>5 DEF LeaseInv, QueueOpenIffLeased
<1>9. NoInheritedMail'
  <2>1. ASSUME NEW x \in DOMAIN leases
        PROVE  /\ Len(queues'[x].events) <= queues'[x].bound
               /\ \A i \in 1..Len(queues'[x].events) :
                     queues'[x].events[i].under = leases'[x].epoch
    BY <1>4, <1>5 DEF LeaseInv, NoInheritedMail, QueueOpenIffLeased
  <2>2. Len(queues'[e].events) = 0 /\ Len(queues'[e].events) <= queues'[e].bound
    BY <1>1, <1>5
  <2> QED BY <2>1, <2>2, <1>4, <1>5 DEF LeaseInv, NoInheritedMail, QueueOpenIffLeased
<1>10. NoticesAreTrue'
  <2>1. ASSUME NEW t \in Sessions, NEW i \in 1..Len(notices[t])
        PROVE  /\ notices[t][i].epoch \in 1..minted'
               /\ \A x \in DOMAIN leases' : leases'[x].epoch # notices[t][i].epoch
    <3>1. /\ notices[t][i].epoch \in 1..minted
          /\ \A x \in DOMAIN leases : leases[x].epoch # notices[t][i].epoch
      BY DEF LeaseInv, NoticesAreTrue
    <3> QED BY <3>1, <1>1, <1>2, <1>4
  <2> QED BY <2>1, <1>2 DEF LeaseInv, NoticesAreTrue
<1>11. NoticesOlder'
  <2> SUFFICES ASSUME NEW t \in Sessions, NEW x \in DOMAIN leases', leases'[x].owner = t,
                      NEW i \in 1..Len(notices'[t])
               PROVE  notices'[t][i].epoch < leases'[x].epoch
    BY DEF NoticesOlder
  <2>1. CASE x = e
    <3>1. notices[t][i].epoch \in 1..minted
      BY <1>2 DEF LeaseInv, NoticesAreTrue
    <3> QED BY <2>1, <3>1, <1>1, <1>2, <1>4
  <2>2. CASE x # e
    BY <2>2, <1>2, <1>4 DEF LeaseInv, NoticesOlder
  <2> QED BY <2>1, <2>2
<1>12. DefaultUsable'
  BY <1>2 DEF LeaseInv, DefaultUsable
<1> QED BY <1>6, <1>7, <1>8, <1>9, <1>10, <1>11, <1>12 DEF LeaseInv

\* The leases and queues of a set of endpoints go together: what all four ways
\* of ending a lease share.
LEMMA DropInv ==
    ASSUME LeaseInv, NEW S,
           leases' = MapDrop(leases, S), queues' = MapDrop(queues, S), minted' = minted
    PROVE  /\ IsMap(leases', Endpoints, ActiveLease)
           /\ IsMap(queues', Endpoints, [events : Seq(DirectEvent), bound : Nat])
           /\ DOMAIN leases' = DOMAIN leases \ S
           /\ \A x \in DOMAIN leases' : leases'[x] = leases[x]
           /\ QueueOpenIffLeased'
           /\ NoInheritedMail'
<1>1. IsMap(leases', Endpoints, ActiveLease)
  BY MapDropType DEF LeaseInv, LeaseTypeOK
<1>2. IsMap(queues', Endpoints, [events : Seq(DirectEvent), bound : Nat])
  BY MapDropType DEF LeaseInv, LeaseTypeOK
<1>3. /\ DOMAIN leases' = DOMAIN leases \ S
      /\ \A x \in DOMAIN leases' : leases'[x] = leases[x]
      /\ DOMAIN queues' = DOMAIN queues \ S
      /\ \A x \in DOMAIN queues' : queues'[x] = queues[x]
  BY DEF MapDrop
<1>4. QueueOpenIffLeased'
  BY <1>3 DEF LeaseInv, QueueOpenIffLeased
<1>5. NoInheritedMail'
  BY <1>3, <1>4 DEF LeaseInv, NoInheritedMail, QueueOpenIffLeased
<1> QED BY <1>1, <1>2, <1>3, <1>4, <1>5

\* Leases that remain on unchanged endpoints stay exclusive.
LEMMA FewerLeases ==
    ASSUME LeaseExclusive, minted' = minted,
           DOMAIN leases' \subseteq DOMAIN leases,
           \A x \in DOMAIN leases' : leases'[x] = leases[x],
           \A x \in DOMAIN leases' : x \in DOMAIN endpoints => 
               x \in DOMAIN endpoints' /\ endpoints'[x] = endpoints[x]
    PROVE  LeaseExclusive'
<1> SUFFICES ASSUME NEW x \in DOMAIN leases'
             PROVE  /\ x \in DOMAIN endpoints' /\ endpoints'[x].enabled
                    /\ endpoints'[x].kinds = {} \/ leases'[x].kind \in endpoints'[x].kinds
                    /\ leases'[x].epoch \in 1..minted'
                    /\ \A f \in DOMAIN leases' \ {x} :
                           /\ leases'[f].owner # leases'[x].owner
                           /\ leases'[f].epoch # leases'[x].epoch
  BY DEF LeaseExclusive
<1>1. /\ x \in DOMAIN leases /\ leases'[x] = leases[x]
      /\ x \in DOMAIN endpoints /\ endpoints[x].enabled
      /\ endpoints[x].kinds = {} \/ leases[x].kind \in endpoints[x].kinds
      /\ leases[x].epoch \in 1..minted
      /\ \A f \in DOMAIN leases \ {x} :
             /\ leases[f].owner # leases[x].owner
             /\ leases[f].epoch # leases[x].epoch
  BY DEF LeaseExclusive
<1> QED BY <1>1

LEMMA ReleaseInv ==
    ASSUME LeaseInv, NEW s \in Sessions, Release(s)
    PROVE  LeaseInv'
<1>1. /\ leases' = MapDrop(leases, HeldBy(s))
      /\ queues' = MapDrop(queues, HeldBy(s))
      /\ notices' = [notices EXCEPT ![s] = <<>>]
      /\ UNCHANGED <<endpoints, default, queueBound, minted>>
  BY DEF Release
<1>2. /\ IsMap(leases', Endpoints, ActiveLease)
      /\ IsMap(queues', Endpoints, [events : Seq(DirectEvent), bound : Nat])
      /\ DOMAIN leases' \subseteq DOMAIN leases
      /\ \A x \in DOMAIN leases' : leases'[x] = leases[x]
      /\ QueueOpenIffLeased'
      /\ NoInheritedMail'
  BY Zenon, <1>1, DropInv
<1>3. /\ notices' \in [Sessions -> Seq(LeaseNotice)]
      /\ \A t \in Sessions : notices'[t] = IF t = s THEN <<>> ELSE notices[t]
  BY <1>1 DEF LeaseInv, LeaseTypeOK
<1>4. LeaseTypeOK'
  BY <1>1, <1>2, <1>3 DEF LeaseInv, LeaseTypeOK
<1>5. LeaseExclusive'
  BY <1>1, <1>2, FewerLeases DEF LeaseInv
<1>6. NoticesAreTrue'
  <2>1. \A t \in Sessions : t # s => notices'[t] = notices[t]
    BY <1>3
  <2>2. Len(notices'[s]) = 0
    BY <1>3
  <2> QED BY <1>1, <1>2, <2>1, <2>2, LeaseAssumption DEF LeaseInv, NoticesAreTrue
<1>7. NoticesOlder'
  BY <1>2, <1>3 DEF LeaseInv, NoticesOlder
<1>8. DefaultUsable'
  BY <1>1 DEF LeaseInv, DefaultUsable
<1> QED BY <1>2, <1>4, <1>5, <1>6, <1>7, <1>8 DEF LeaseInv

\* Tail shifts a nonempty sequence down by one.
LEMMA TailFacts ==
    ASSUME NEW S, NEW q \in Seq(S), q # <<>>
    PROVE  /\ Tail(q) \in Seq(S)
           /\ Len(Tail(q)) = Len(q) - 1
           /\ \A i \in 1..Len(Tail(q)) : i + 1 \in 1..Len(q) /\ Tail(q)[i] = q[i + 1]
BY SMT

\* Making room under a ceiling keeps a suffix.
LEMMA TrimFacts ==
    ASSUME NEW S, NEW q \in Seq(S), NEW max \in Nat \ {0}, Len(q) <= max,
           NEW t, t = IF Len(q) >= max THEN Tail(q) ELSE q
    PROVE  /\ t \in Seq(S)
           /\ Len(t) <= max - 1
           /\ \E d \in {0, 1} : \A i \in 1..Len(t) : i + d \in 1..Len(q) /\ t[i] = q[i + d]
<1>1. Len(q) \in Nat
  OBVIOUS
<1>2. CASE Len(q) >= max
  <2>1. q # <<>> /\ t = Tail(q)
    BY <1>1, <1>2
  <2> QED BY <1>1, <1>2, <2>1, TailFacts
<1>3. CASE ~(Len(q) >= max)
  <2>1. t = q /\ \A i \in 1..Len(q) : i + 0 = i
    BY <1>1, <1>3
  <2> QED BY <1>1, <1>3, <2>1
<1> QED BY <1>2, <1>3

\* Ending the lease on e and owing its holder the notice keeps the notices
\* true, in order and within the ceiling.
LEMMA OweNoticeInv ==
    ASSUME LeaseInv, NEW e \in Endpoints,
           leases' = MapDrop(leases, {e}), notices' = OweNotice(e), minted' = minted
    PROVE  /\ notices' \in [Sessions -> Seq(LeaseNotice)]
           /\ NoticesAreTrue'
           /\ NoticesOlder'
<1>1. /\ DOMAIN leases' = DOMAIN leases \ {e}
      /\ \A x \in DOMAIN leases' : leases'[x] = leases[x]
  BY DEF MapDrop
<1>2. notices \in [Sessions -> Seq(LeaseNotice)] /\ NoticesAreTrue /\ NoticesOlder
  BY DEF LeaseInv, LeaseTypeOK
<1>3. CASE e \notin DOMAIN leases
  <2>1. notices' = notices
    BY <1>3 DEF OweNotice
  <2>2. ASSUME NEW t \in Sessions, NEW i \in 1..Len(notices[t])
        PROVE  \A x \in DOMAIN leases' : leases'[x].epoch # notices[t][i].epoch
    <3>1. \A x \in DOMAIN leases : leases[x].epoch # notices[t][i].epoch
      BY <1>2 DEF NoticesAreTrue
    <3> QED BY Zenon, <3>1, <1>1
  <2>4. NoticesAreTrue'
    BY Zenon, <1>2, <2>1, <2>2 DEF NoticesAreTrue
  <2>3. NoticesOlder'
    BY Zenon, <1>1, <1>2, <2>1 DEF NoticesOlder
  <2> QED BY <1>2, <2>1, <2>3, <2>4
<1>4. CASE e \in DOMAIN leases
  <2> DEFINE o == leases[e].owner
             owed == notices[o]
             kept == IF Len(owed) >= MaxOwed THEN Tail(owed) ELSE owed
             new == [endpoint |-> e, epoch |-> leases[e].epoch]
             next == Append(kept, new)
  <2>1. leases[e] \in ActiveLease /\ leases[e].epoch \in 1..minted
    BY <1>4 DEF LeaseInv, LeaseTypeOK, IsMap, LeaseExclusive
  <2>2. o \in Sessions /\ leases[e].epoch \in Nat /\ MaxOwed \in Nat \ {0}
    BY <2>1, LeaseAssumption DEF ActiveLease
  <2>3. new \in LeaseNotice /\ owed \in Seq(LeaseNotice) /\ Len(owed) <= MaxOwed
    BY Zenon, <2>2, <1>2 DEF LeaseNotice, NoticesAreTrue
  <2>4. notices' = [notices EXCEPT ![o] = next]
    BY <1>4 DEF OweNotice
  <2>5. /\ kept \in Seq(LeaseNotice)
        /\ Len(kept) <= MaxOwed - 1
        /\ \E d \in {0, 1} : \A i \in 1..Len(kept) :
                                i + d \in 1..Len(owed) /\ kept[i] = owed[i + d]
    BY <2>2, <2>3, TrimFacts
  <2>6. PICK d \in {0, 1} : \A i \in 1..Len(kept) :
                                i + d \in 1..Len(owed) /\ kept[i] = owed[i + d]
    BY <2>5
  <2>7. /\ next \in Seq(LeaseNotice) /\ Len(next) = Len(kept) + 1
        /\ next[Len(kept) + 1] = new
        /\ \A i \in 1..Len(kept) : next[i] = kept[i]
    BY <2>3, <2>5
  <2>8. Len(kept) \in Nat
    BY <2>5
  <2> HIDE DEF kept, next
  <2>9. notices' \in [Sessions -> Seq(LeaseNotice)]
    BY Zenon, <1>2, <2>4, <2>7
  <2>10. /\ notices'[o] = next
         /\ \A t \in Sessions : t # o => notices'[t] = notices[t]
    BY <1>2, <2>2, <2>4
  <2>11. \A i \in 1..Len(next) : i \in 1..Len(kept) \/ i = Len(kept) + 1
    BY <2>7, <2>8
  <2>12. ASSUME NEW i \in 1..Len(kept)
         PROVE  /\ next[i].epoch \in 1..minted
                /\ next[i].epoch < leases[e].epoch
                /\ \A x \in DOMAIN leases : leases[x].epoch # next[i].epoch
                /\ \A j \in 1..Len(kept) : i < j => next[i].epoch < next[j].epoch
    <3>1. /\ i + d \in 1..Len(owed) /\ next[i] = owed[i + d]
          /\ \A j \in 1..Len(kept) : j + d \in 1..Len(owed) /\ next[j] = owed[j + d]
      BY <2>6, <2>7
    <3>2. /\ owed[i + d].epoch \in 1..minted
          /\ \A x \in DOMAIN leases : leases[x].epoch # owed[i + d].epoch
          /\ \A k \in 1..Len(owed) : i + d < k => owed[i + d].epoch < owed[k].epoch
      BY <1>2, <2>2, <3>1 DEF NoticesAreTrue
    <3>3. owed[i + d].epoch < leases[e].epoch
      BY <1>2, <1>4, <2>2, <3>1 DEF NoticesOlder
    <3>4. \A j \in 1..Len(kept) : i < j => i + d < j + d
      BY <2>8
    <3> QED BY <3>1, <3>2, <3>3, <3>4, Zenon
  <2>13. ASSUME NEW i \in 1..Len(next)
         PROVE  /\ next[i].epoch \in 1..minted
                /\ \A x \in DOMAIN leases' : leases'[x].epoch # next[i].epoch
                /\ \A j \in 1..Len(next) : i < j => next[i].epoch < next[j].epoch
    <3>1. CASE i \in 1..Len(kept)
      <4>1. \A j \in 1..Len(next) : i < j => next[i].epoch < next[j].epoch
        BY <3>1, <2>7, <2>11, <2>12
      <4> QED BY Zenon, <3>1, <4>1, <2>12, <1>1
    <3>2. CASE i = Len(kept) + 1
      <4>1. \A j \in 1..Len(next) : ~(i < j)
        BY <3>2, <2>7, <2>8
      <4>2. next[i].epoch = leases[e].epoch
        BY <3>2, <2>7
      <4>3. \A x \in DOMAIN leases' : leases'[x].epoch # leases[e].epoch
        BY Zenon, <1>1, <1>4 DEF LeaseInv, LeaseExclusive
      <4> QED BY Zenon, <4>1, <4>2, <4>3, <2>1
    <3> QED BY Zenon, <3>1, <3>2, <2>11
  <2>14. Len(next) <= MaxOwed
    BY <2>2, <2>5, <2>7, <2>8
  <2>15. NoticesAreTrue'
    <3> SUFFICES ASSUME NEW t \in Sessions
                 PROVE  /\ Len(notices'[t]) <= MaxOwed
                        /\ \A i \in 1..Len(notices'[t]) :
                             /\ notices'[t][i].epoch \in 1..minted
                             /\ \A x \in DOMAIN leases' : leases'[x].epoch # notices'[t][i].epoch
                             /\ \A j \in 1..Len(notices'[t]) :
                                   i < j => notices'[t][i].epoch < notices'[t][j].epoch
      BY Zenon DEF NoticesAreTrue
    <3>1. CASE t = o
      <4>1. notices'[t] = next
        BY Zenon, <3>1, <2>10
      <4>2. \A i \in 1..Len(next) :
               /\ next[i].epoch \in 1..minted
               /\ \A x \in DOMAIN leases' : leases'[x].epoch # next[i].epoch
               /\ \A j \in 1..Len(next) : i < j => next[i].epoch < next[j].epoch
        BY Zenon, <2>13
      <4> QED BY <4>1, <4>2, <2>14, Zenon
    <3>2. CASE t # o
      <4>1. ASSUME NEW i \in 1..Len(notices[t])
            PROVE  /\ notices[t][i].epoch \in 1..minted
                   /\ \A x \in DOMAIN leases' : leases'[x].epoch # notices[t][i].epoch
                   /\ \A j \in 1..Len(notices[t]) :
                         i < j => notices[t][i].epoch < notices[t][j].epoch
        <5>1. /\ notices[t][i].epoch \in 1..minted
              /\ \A x \in DOMAIN leases : leases[x].epoch # notices[t][i].epoch
              /\ \A j \in 1..Len(notices[t]) :
                    i < j => notices[t][i].epoch < notices[t][j].epoch
          BY <1>2 DEF NoticesAreTrue
        <5> QED BY Zenon, <5>1, <1>1
      <4>2. Len(notices[t]) <= MaxOwed
        BY <1>2 DEF NoticesAreTrue
      <4> QED BY Zenon, <3>2, <4>1, <4>2, <2>10
    <3> QED BY Zenon, <3>1, <3>2
  <2>16. NoticesOlder'
    <3> SUFFICES ASSUME NEW t \in Sessions, NEW x \in DOMAIN leases', leases'[x].owner = t,
                        NEW i \in 1..Len(notices'[t])
                 PROVE  notices'[t][i].epoch < leases'[x].epoch
      BY Zenon DEF NoticesOlder
    <3>1. t # o
      BY Zenon, <1>1, <1>4 DEF LeaseInv, LeaseExclusive
    <3> QED BY Zenon, <3>1, <2>10, <1>1, <1>2 DEF NoticesOlder
  <2> QED BY <2>9, <2>15, <2>16
<1> QED BY <1>3, <1>4

LEMMA RevokeInv ==
    ASSUME LeaseInv, NEW e \in Endpoints, Revoke(e)
    PROVE  LeaseInv'
<1>1. /\ notices' = OweNotice(e)
      /\ leases' = MapDrop(leases, {e})
      /\ queues' = MapDrop(queues, {e})
      /\ UNCHANGED <<endpoints, default, queueBound, minted>>
  BY DEF Revoke
<1>2. /\ IsMap(leases', Endpoints, ActiveLease)
      /\ IsMap(queues', Endpoints, [events : Seq(DirectEvent), bound : Nat])
      /\ DOMAIN leases' \subseteq DOMAIN leases
      /\ \A x \in DOMAIN leases' : leases'[x] = leases[x]
      /\ QueueOpenIffLeased' /\ NoInheritedMail'
  BY Zenon, <1>1, DropInv
<1>3. notices' \in [Sessions -> Seq(LeaseNotice)] /\ NoticesAreTrue' /\ NoticesOlder'
  BY <1>1, OweNoticeInv
<1>4. LeaseTypeOK'
  BY <1>1, <1>2, <1>3 DEF LeaseInv, LeaseTypeOK
<1>5. LeaseExclusive'
  BY Zenon, <1>1, <1>2, FewerLeases DEF LeaseInv
<1>6. DefaultUsable'
  BY <1>1 DEF LeaseInv, DefaultUsable
<1> QED BY <1>2, <1>3, <1>4, <1>5, <1>6 DEF LeaseInv

LEMMA EnableInv ==
    ASSUME LeaseInv, NEW e \in Endpoints, Enable(e)
    PROVE  LeaseInv'
<1>1. /\ e \in DOMAIN endpoints
      /\ endpoints' = [endpoints EXCEPT ![e].enabled = TRUE]
      /\ UNCHANGED <<leases, default, queues, queueBound, notices, minted>>
  BY DEF Enable
<1>2. endpoints \in [DOMAIN endpoints -> RegisteredEndpoint] /\ DOMAIN endpoints \subseteq Endpoints
  BY DEF LeaseInv, LeaseTypeOK, IsMap
<1>3. /\ DOMAIN endpoints' = DOMAIN endpoints
      /\ endpoints' \in [DOMAIN endpoints -> RegisteredEndpoint]
      /\ \A x \in DOMAIN endpoints : /\ endpoints'[x].kinds = endpoints[x].kinds
                                     /\ endpoints[x].enabled => endpoints'[x].enabled
  BY Zenon, <1>1, <1>2 DEF RegisteredEndpoint
<1>4. LeaseTypeOK'
  BY <1>1, <1>2, <1>3 DEF LeaseInv, LeaseTypeOK, IsMap
<1>5. LeaseExclusive'
  BY <1>1, <1>3 DEF LeaseInv, LeaseExclusive
<1>6. DefaultUsable'
  BY <1>1, <1>3 DEF LeaseInv, DefaultUsable
<1>7. (QueueOpenIffLeased /\ NoInheritedMail /\ NoticesAreTrue /\ NoticesOlder)'
  BY <1>1 DEF LeaseInv, QueueOpenIffLeased, NoInheritedMail, NoticesAreTrue, NoticesOlder
<1> QED BY <1>4, <1>5, <1>6, <1>7 DEF LeaseInv

LEMMA DisableInv ==
    ASSUME LeaseInv, NEW e \in Endpoints, Disable(e)
    PROVE  LeaseInv'
<1>1. /\ e \in DOMAIN endpoints
      /\ notices' = OweNotice(e)
      /\ default' = IF default = e THEN NoEndpoint ELSE default
      /\ endpoints' = [endpoints EXCEPT ![e].enabled = FALSE]
      /\ leases' = MapDrop(leases, {e})
      /\ UNCHANGED <<queueBound, minted>>
  BY DEF Disable
<1>2. queues' = MapDrop(queues, {e})
  <2>1. CASE e \in DOMAIN leases
    BY <2>1 DEF Disable
  <2>2. CASE e \notin DOMAIN leases
    <3>1. queues' = queues /\ e \notin DOMAIN queues
      BY <2>2 DEF Disable, LeaseInv, QueueOpenIffLeased
    <3>2. DOMAIN queues \ {e} = DOMAIN queues /\ queues = [x \in DOMAIN queues |-> queues[x]]
      BY Zenon, <3>1 DEF LeaseInv, LeaseTypeOK, IsMap
    <3> QED BY <3>1, <3>2 DEF MapDrop
  <2> QED BY <2>1, <2>2
<1>3. /\ IsMap(leases', Endpoints, ActiveLease)
      /\ IsMap(queues', Endpoints, [events : Seq(DirectEvent), bound : Nat])
      /\ DOMAIN leases' = DOMAIN leases \ {e}
      /\ \A x \in DOMAIN leases' : leases'[x] = leases[x]
      /\ QueueOpenIffLeased' /\ NoInheritedMail'
  BY Zenon, <1>1, <1>2, DropInv
<1>4. notices' \in [Sessions -> Seq(LeaseNotice)] /\ NoticesAreTrue' /\ NoticesOlder'
  BY <1>1, OweNoticeInv
<1>5. endpoints \in [DOMAIN endpoints -> RegisteredEndpoint] /\ DOMAIN endpoints \subseteq Endpoints
  BY DEF LeaseInv, LeaseTypeOK, IsMap
<1>6. /\ DOMAIN endpoints' = DOMAIN endpoints
      /\ endpoints' \in [DOMAIN endpoints -> RegisteredEndpoint]
      /\ \A x \in DOMAIN endpoints : x # e => endpoints'[x] = endpoints[x]
  BY Zenon, <1>1, <1>5 DEF RegisteredEndpoint
<1>7. LeaseTypeOK'
  BY Zenon, <1>1, <1>3, <1>4, <1>5, <1>6 DEF LeaseInv, LeaseTypeOK, IsMap
<1>8. LeaseExclusive'
  BY Zenon, <1>1, <1>3, <1>6, FewerLeases DEF LeaseInv
<1>9. DefaultUsable'
  BY <1>1, <1>6 DEF LeaseInv, DefaultUsable
<1> QED BY <1>3, <1>4, <1>7, <1>8, <1>9 DEF LeaseInv

LEMMA SetDefaultInv ==
    ASSUME LeaseInv, NEW e \in Endpoints \cup {NoEndpoint}, SetDefault(e)
    PROVE  LeaseInv'
BY DEF SetDefault, LeaseInv, LeaseTypeOK, LeaseExclusive, QueueOpenIffLeased,
       NoInheritedMail, NoticesAreTrue, NoticesOlder, DefaultUsable

\* Dropping the first items of a sequence keeps the rest in order.
LEMMA SkipFacts ==
    ASSUME NEW S, NEW q \in Seq(S), NEW n \in 0..Len(q),
           NEW r, r = SubSeq(q, n + 1, Len(q))
    PROVE  /\ r \in Seq(S) /\ Len(r) = Len(q) - n
           /\ \A i \in 1..Len(r) : i + n \in 1..Len(q) /\ r[i] = q[i + n]
BY SMT

\* The count a bounded take removes.
LEMMA TakeCount ==
    ASSUME NEW n \in Nat, NEW max \in Nat
    PROVE  (IF n < max THEN n ELSE max) \in 0..n
OBVIOUS

LEMMA TakeInv ==
    ASSUME LeaseInv, NEW s \in Sessions, NEW max \in Batches, TakeLeaseNotices(s, max)
    PROVE  LeaseInv'
<1> DEFINE owed == notices[s]
           take == IF Len(owed) < max THEN Len(owed) ELSE max
           rest == SubSeq(owed, take + 1, Len(owed))
<1>1. /\ notices' = [notices EXCEPT ![s] = rest]
      /\ UNCHANGED <<endpoints, leases, default, queues, queueBound, minted>>
  BY DEF TakeLeaseNotices
<1>2. /\ notices \in [Sessions -> Seq(LeaseNotice)] /\ owed \in Seq(LeaseNotice)
      /\ Len(owed) \in Nat /\ max \in Nat /\ NoticesAreTrue /\ NoticesOlder
  BY LeaseAssumption DEF LeaseInv, LeaseTypeOK
<1>3. take \in 0..Len(owed)
  BY <1>2, TakeCount
<1> HIDE DEF take
<1>4. /\ rest \in Seq(LeaseNotice) /\ Len(rest) = Len(owed) - take
      /\ \A i \in 1..Len(rest) : i + take \in 1..Len(owed) /\ rest[i] = owed[i + take]
  BY <1>2, <1>3, SkipFacts
<1> HIDE DEF rest
<1>5. /\ notices' \in [Sessions -> Seq(LeaseNotice)]
      /\ notices'[s] = rest
      /\ \A t \in Sessions : t # s => notices'[t] = notices[t]
  BY <1>1, <1>2, <1>4
<1>6. LeaseTypeOK'
  BY <1>1, <1>5 DEF LeaseInv, LeaseTypeOK
<1>7. NoticesAreTrue'
  <2>1. Len(rest) <= MaxOwed
    BY <1>2, <1>3, <1>4, LeaseAssumption DEF NoticesAreTrue
  <2>2. ASSUME NEW i \in 1..Len(rest)
        PROVE  /\ rest[i].epoch \in 1..minted
               /\ \A x \in DOMAIN leases : leases[x].epoch # rest[i].epoch
               /\ \A j \in 1..Len(rest) : i < j => rest[i].epoch < rest[j].epoch
    <3>1. /\ owed[i + take].epoch \in 1..minted
          /\ \A x \in DOMAIN leases : leases[x].epoch # owed[i + take].epoch
          /\ \A k \in 1..Len(owed) : i + take < k => owed[i + take].epoch < owed[k].epoch
      BY <1>2, <1>4 DEF NoticesAreTrue
    <3>2. \A j \in 1..Len(rest) : i < j => i + take < j + take
      BY <1>3
    <3> QED BY <1>4, <3>1, <3>2, Zenon
  <2> QED BY <1>1, <1>2, <1>5, <2>1, <2>2 DEF NoticesAreTrue
<1>8. NoticesOlder'
  <2>1. ASSUME NEW x \in DOMAIN leases, leases[x].owner = s, NEW i \in 1..Len(rest)
        PROVE  rest[i].epoch < leases[x].epoch
    BY <1>2, <1>4, <2>1 DEF NoticesOlder
  <2> QED BY <1>1, <1>2, <1>5, <2>1 DEF NoticesOlder
<1>9. (LeaseExclusive /\ QueueOpenIffLeased /\ NoInheritedMail /\ DefaultUsable)'
  BY <1>1 DEF LeaseInv, LeaseExclusive, QueueOpenIffLeased, NoInheritedMail, DefaultUsable
<1> QED BY <1>6, <1>7, <1>8, <1>9 DEF LeaseInv

\* A change to the contents of one open queue, its bound kept, that leaves
\* only mail of the current lease within the bound.
LEMMA QueueChangeInv ==
    ASSUME LeaseInv, NEW e \in DOMAIN queues, NEW evs \in Seq(DirectEvent),
           queues' = [queues EXCEPT ![e].events = evs],
           UNCHANGED <<endpoints, leases, default, queueBound, notices, minted>>,
           Len(evs) <= queues[e].bound,
           \A i \in 1..Len(evs) : evs[i].under = leases[e].epoch
    PROVE  LeaseInv'
<1>1. queues \in [DOMAIN queues -> [events : Seq(DirectEvent), bound : Nat]]
  BY DEF LeaseInv, LeaseTypeOK, IsMap
<1>2. /\ DOMAIN queues' = DOMAIN queues
      /\ queues' \in [DOMAIN queues -> [events : Seq(DirectEvent), bound : Nat]]
      /\ queues'[e].events = evs /\ queues'[e].bound = queues[e].bound
      /\ \A x \in DOMAIN queues : x # e => queues'[x] = queues[x]
  BY <1>1
<1>3. LeaseTypeOK'
  BY <1>2 DEF LeaseInv, LeaseTypeOK, IsMap
<1>4. NoInheritedMail'
  BY <1>2 DEF LeaseInv, NoInheritedMail
<1>5. (LeaseExclusive /\ QueueOpenIffLeased /\ NoticesAreTrue /\ NoticesOlder /\ DefaultUsable)'
  BY <1>2 DEF LeaseInv, LeaseExclusive, QueueOpenIffLeased, NoticesAreTrue, NoticesOlder,
              DefaultUsable
<1> QED BY <1>3, <1>4, <1>5 DEF LeaseInv

LEMMA DrainInv ==
    ASSUME LeaseInv, NEW e \in Endpoints, NEW epoch \in 1..minted, NEW max \in Batches,
           DrainLeased(e, epoch, max)
    PROVE  LeaseInv'
<1> DEFINE events == queues[e].events
           take == IF Len(events) < max THEN Len(events) ELSE max
           rest == SubSeq(events, take + 1, Len(events))
<1>1. /\ e \in DOMAIN queues
      /\ queues' = [queues EXCEPT ![e].events = rest]
      /\ UNCHANGED <<endpoints, leases, default, queueBound, notices, minted>>
  BY DEF DrainLeased
<1>2. queues[e] \in [events : Seq(DirectEvent), bound : Nat]
  BY <1>1 DEF LeaseInv, LeaseTypeOK, IsMap
<1>3. events \in Seq(DirectEvent) /\ Len(events) \in Nat /\ max \in Nat /\ queues[e].bound \in Nat
  BY <1>2, LeaseAssumption
<1>4. take \in 0..Len(events)
  BY <1>3, TakeCount
<1>7. \A i \in 1..Len(events) : events[i].under = leases[e].epoch
  BY <1>1 DEF LeaseInv, NoInheritedMail
<1>8. Len(events) <= queues[e].bound
  BY <1>1 DEF LeaseInv, NoInheritedMail
<1> HIDE DEF take, events
<1>10. rest = SubSeq(events, take + 1, Len(events))
  OBVIOUS
<1> HIDE DEF rest
<1>5. /\ rest \in Seq(DirectEvent) /\ Len(rest) = Len(events) - take
      /\ \A i \in 1..Len(rest) : i + take \in 1..Len(events) /\ rest[i] = events[i + take]
  BY SMT, <1>3, <1>4, <1>10
<1>6. \A i \in 1..Len(rest) : rest[i].under = leases[e].epoch
  BY <1>5, <1>7
<1>9. Len(rest) <= queues[e].bound
  BY <1>3, <1>4, <1>5, <1>8
<1> QED BY Zenon, <1>1, <1>5, <1>6, <1>9, QueueChangeInv

LEMMA DeliverInv ==
    ASSUME LeaseInv, NEW e \in Endpoints, NEW m \in Messages, Deliver(e, m)
    PROVE  LeaseInv'
<1> DEFINE events == queues[e].events
           event == [message |-> m, under |-> leases[e].epoch]
           next == Append(events, event)
<1>1. /\ e \in DOMAIN queues /\ e \in DOMAIN leases
      /\ Len(events) < queues[e].bound
      /\ queues' = [queues EXCEPT ![e].events = next]
      /\ UNCHANGED <<endpoints, leases, default, queueBound, notices, minted>>
  BY DEF Deliver, HasRoom, Push
<1>2. queues[e] \in [events : Seq(DirectEvent), bound : Nat] /\ leases[e] \in ActiveLease
  BY <1>1 DEF LeaseInv, LeaseTypeOK, IsMap
<1>3. events \in Seq(DirectEvent) /\ queues[e].bound \in Nat /\ event \in DirectEvent
  BY <1>2 DEF ActiveLease, DirectEvent
<1>4. /\ next \in Seq(DirectEvent) /\ Len(next) = Len(events) + 1 /\ Len(events) \in Nat
      /\ \A i \in 1..Len(next) : next[i] = IF i = Len(events) + 1 THEN event ELSE events[i]
      /\ \A i \in 1..Len(next) : i # Len(events) + 1 => i \in 1..Len(events)
  BY <1>3
<1> HIDE DEF next
<1>5. Len(next) <= queues[e].bound
  BY <1>1, <1>3, <1>4
<1>6. \A i \in 1..Len(events) : events[i].under = leases[e].epoch
  BY <1>1 DEF LeaseInv, NoInheritedMail
<1>7. \A i \in 1..Len(next) : next[i].under = leases[e].epoch
  BY <1>4, <1>6
<1> QED BY Zenon, <1>1, <1>4, <1>5, <1>7, QueueChangeInv

-----------------------------------------------------------------------------
(* The invariant, and what it gives. *)

LEMMA LeaseStepInv == LeaseInv /\ [LeaseNext]_leaseVars => LeaseInv'
<1> SUFFICES ASSUME LeaseInv, [LeaseNext]_leaseVars PROVE LeaseInv'
  OBVIOUS
<1>1. CASE LeaseCommand
  <2>1. ASSUME NEW config \in Configurations, Configure(config) PROVE LeaseInv'
    BY <2>1, ConfigureInv, Zenon
  <2>2. ASSUME NEW s \in Sessions, NEW e \in Endpoints, NEW k \in Kinds, Claim(s, e, k)
        PROVE  LeaseInv'
    BY <2>2, ClaimInv, Zenon
  <2>3. ASSUME NEW s \in Sessions, Release(s) PROVE LeaseInv'
    BY <2>3, ReleaseInv, Zenon
  <2>4. ASSUME NEW e \in Endpoints, Revoke(e) \/ Enable(e) \/ Disable(e) PROVE LeaseInv'
    BY <2>4, RevokeInv, EnableInv, DisableInv, Zenon
  <2>5. ASSUME NEW e \in Endpoints \cup {NoEndpoint}, SetDefault(e) PROVE LeaseInv'
    BY <2>5, SetDefaultInv, Zenon
  <2>6. ASSUME NEW s \in Sessions, NEW max \in Batches, TakeLeaseNotices(s, max)
        PROVE  LeaseInv'
    BY <2>6, TakeInv, Zenon
  <2>7. ASSUME NEW e \in Endpoints, NEW epoch \in 1..minted, NEW max \in Batches,
               DrainLeased(e, epoch, max)
        PROVE  LeaseInv'
    BY <2>7, DrainInv, Zenon
  <2> QED BY <1>1, <2>1, <2>2, <2>3, <2>4, <2>5, <2>6, <2>7, Zenon DEF LeaseCommand
<1>2. CASE \E e \in Endpoints, m \in Messages : Deliver(e, m)
  BY <1>2, DeliverInv
<1>3. CASE UNCHANGED leaseVars
  BY <1>3 DEF leaseVars, LeaseInv, LeaseTypeOK, LeaseExclusive, QueueOpenIffLeased,
       NoInheritedMail, NoticesAreTrue, NoticesOlder, DefaultUsable
<1> QED BY <1>1, <1>2, <1>3 DEF LeaseNext

\* Every reachable state satisfies the inductive invariant.
THEOREM LeaseInvariant == LeaseSpec => []LeaseInv
BY LeaseInitInv, LeaseStepInv, PTL DEF LeaseSpec

\* A session holds one lease at a time, on an enabled endpoint open to its
\* kind, and no two live leases share an epoch.
THEOREM LeasesAreExclusive == LeaseSpec => []LeaseExclusive
<1>1. LeaseInv => LeaseExclusive
  BY DEF LeaseInv
<1> QED BY <1>1, LeaseInvariant, PTL

\* A queue is open exactly while its endpoint is leased.
THEOREM QueuesFollowLeases == LeaseSpec => []QueueOpenIffLeased
<1>1. LeaseInv => QueueOpenIffLeased
  BY DEF LeaseInv
<1> QED BY <1>1, LeaseInvariant, PTL

\* Mail admitted under one lease is never handed to a later holder.
THEOREM MailIsNeverInherited == LeaseSpec => []NoInheritedMail
<1>1. LeaseInv => NoInheritedMail
  BY DEF LeaseInv
<1> QED BY <1>1, LeaseInvariant, PTL

\* Notices name ended leases, once each and in order, within the ceiling.
THEOREM NoticesNameEndedLeases == LeaseSpec => []NoticesAreTrue
<1>1. LeaseInv => NoticesAreTrue
  BY DEF LeaseInv
<1> QED BY <1>1, LeaseInvariant, PTL

\* The default endpoint is always configured and enabled.
THEOREM DefaultIsUsable == LeaseSpec => []DefaultUsable
<1>1. LeaseInv => DefaultUsable
  BY DEF LeaseInv
<1> QED BY <1>1, LeaseInvariant, PTL

\* Whoever loses a lease that was neither released nor replaced with the
\* whole registry is owed the notice naming it.
LEMMA RevokedIsOwed ==
    ASSUME LeaseInv, NEW e \in Endpoints,
           leases' = MapDrop(leases, {e}), notices' = OweNotice(e)
    PROVE  LeaseEnds
<1> SUFFICES ASSUME NEW x \in DOMAIN leases,
                    x \notin DOMAIN leases' \/ leases'[x] # leases[x]
             PROVE  LET owed == notices'[leases[x].owner]
                    IN  owed # <<>> /\ owed[Len(owed)] =
                           [endpoint |-> x, epoch |-> leases[x].epoch]
  BY Zenon DEF LeaseEnds
<1> DEFINE owed == notices[leases[e].owner]
           kept == IF Len(owed) >= MaxOwed THEN Tail(owed) ELSE owed
           new == [endpoint |-> e, epoch |-> leases[e].epoch]
<1>1. x = e
  BY DEF MapDrop
<1>2. /\ notices \in [Sessions -> Seq(LeaseNotice)] /\ leases[e].owner \in Sessions
      /\ Len(owed) <= MaxOwed /\ MaxOwed \in Nat \ {0}
  BY <1>1, LeaseAssumption DEF LeaseInv, LeaseTypeOK, IsMap, ActiveLease, NoticesAreTrue
<1>3. notices'[leases[e].owner] = Append(kept, new)
  BY <1>1, <1>2 DEF OweNotice
<1>4. kept \in Seq(LeaseNotice)
  BY <1>2, TrimFacts
<1> HIDE DEF kept
<1>5. Append(kept, new) # <<>> /\ Append(kept, new)[Len(Append(kept, new))] = new
  BY <1>4
<1> QED BY <1>1, <1>3, <1>5

LEMMA LeaseEndsStep == LeaseInv /\ [LeaseNext]_leaseVars => LeaseEnds \/ UNCHANGED leaseVars
<1> SUFFICES ASSUME LeaseInv, LeaseNext PROVE LeaseEnds
  OBVIOUS
<1>1. ASSUME UNCHANGED leases PROVE LeaseEnds
  BY <1>1 DEF LeaseEnds
<1>2. ASSUME NEW config \in Configurations, Configure(config)
      PROVE  LeaseEnds
  <2>1. DOMAIN leases' = {} /\ endpoints' = config.endpoints
    BY <1>2, EmptyMapType DEF Configure
  <2> QED BY <2>1 DEF LeaseEnds
<1>3. ASSUME NEW s \in Sessions, NEW e \in Endpoints, NEW k \in Kinds, Claim(s, e, k)
      PROVE  LeaseEnds
  <2>1. \A x \in DOMAIN leases : x \in DOMAIN leases' /\ leases'[x] = leases[x]
    BY <1>3 DEF Claim, MayClaim, MapPut
  <2> QED BY <2>1 DEF LeaseEnds
<1>4. ASSUME NEW s \in Sessions, Release(s)
      PROVE  LeaseEnds
  <2>1. /\ \A x \in DOMAIN leases : leases[x].owner # s =>
               x \in DOMAIN leases' /\ leases'[x] = leases[x]
        /\ \A x \in DOMAIN leases' : leases'[x].owner # s
    BY <1>4 DEF Release, HeldBy, MapDrop
  <2>2. notices'[s] = <<>> /\ endpoints' = endpoints
    BY <1>4 DEF Release, LeaseInv, LeaseTypeOK
  <2> QED BY <2>1, <2>2 DEF LeaseEnds
<1>5. ASSUME NEW e \in Endpoints, Revoke(e) PROVE LeaseEnds
  BY <1>5, RevokedIsOwed DEF Revoke
<1>6. ASSUME NEW e \in Endpoints, Disable(e) PROVE LeaseEnds
  BY <1>6, RevokedIsOwed DEF Disable
<1> QED BY <1>1, <1>2, <1>3, <1>4, <1>5, <1>6
        DEF LeaseNext, LeaseCommand, Enable, SetDefault, TakeLeaseNotices, DrainLeased, Deliver

\* No step ends a lease without a release, a new registry or a notice.
THEOREM LeasesEndAnnounced == LeaseSpec => NoLeaseEndsUnannounced
<1>1. LeaseInv /\ [LeaseNext]_leaseVars => [LeaseEnds]_leaseVars
  BY LeaseEndsStep
<1> QED BY <1>1, LeaseInvariant, PTL DEF LeaseSpec, NoLeaseEndsUnannounced

-----------------------------------------------------------------------------
(* Admission over the leases. *)

\* A step of admission is a step of the leases: an accepted request is a
\* delivery to a leased endpoint, and every other one leaves them alone.
LEMMA AdmissionSimulates == LeaseInv /\ [DirectNext]_directVars => [LeaseNext]_leaseVars
<1> SUFFICES ASSUME LeaseInv, [DirectNext]_directVars PROVE [LeaseNext]_leaseVars
  OBVIOUS
<1>1. ASSUME NEW request \in Messages, Accept(request) PROVE LeaseNext
  <2>1. TargetOf(request) \in Endpoints
    BY <1>1 DEF Accept, Resolves, LeaseInv, LeaseTypeOK, IsMap
  <2>2. Deliver(TargetOf(request), request)
    BY <1>1 DEF Accept
  <2> QED BY <2>1, <2>2 DEF LeaseNext
<1>2. ASSUME NEW request \in Messages, Refuse(request) PROVE UNCHANGED leaseVars
  BY <1>2 DEF Refuse
<1>3. CASE LeaseCommand
  BY <1>3 DEF LeaseNext
<1>4. ASSUME NEW peers \in TrustSets, AdoptTrust(peers) PROVE UNCHANGED leaseVars
  BY <1>4 DEF AdoptTrust
<1>5. CASE BeginDrain \/ Tick
  BY <1>5 DEF BeginDrain, Tick
<1>6. CASE UNCHANGED directVars
  BY <1>6 DEF directVars
<1> QED BY <1>1, <1>2, <1>3, <1>4, <1>5, <1>6 DEF DirectNext

\* The lease invariant holds of admission too.
LEMMA DirectLeaseInv == DirectSpec => []LeaseInv
<1>1. DirectInit => LeaseInv
  BY LeaseInitInv DEF DirectInit
<1>2. LeaseInv /\ [DirectNext]_directVars => LeaseInv'
  BY AdmissionSimulates, LeaseStepInv
<1> QED BY <1>1, <1>2, PTL DEF DirectSpec

\* Admission implements the lease specification: whatever requests arrive,
\* the registry and the queues take only steps of their own (`handle_direct`
\* changes them through `admit_structured` alone).
THEOREM AdmissionImplementsLeases == DirectSpec => LeaseSpec
<1>1. DirectInit => LeaseInit
  BY DEF DirectInit
<1> QED BY <1>1, AdmissionSimulates, DirectLeaseInv, PTL DEF DirectSpec, LeaseSpec

\* So what is proved of the leases holds while requests arrive.
THEOREM AdmissionKeepsLeases ==
    DirectSpec => [](LeaseExclusive /\ NoInheritedMail) /\ NoLeaseEndsUnannounced
BY AdmissionImplementsLeases, LeasesAreExclusive, MailIsNeverInherited, LeasesEndAnnounced, PTL

-----------------------------------------------------------------------------
(* The cache remembers what was admitted. *)

\* A key that was admitted is in the cache as of that admission, unless its
\* lifetime has passed or the bound pushed it out.
Remembered(key, cache, time) ==
    \/ key \in evicted
    \/ time - admitted[key].at >= Ttl
    \/ key \in DOMAIN cache.entries /\ cache.entries[key].at = admitted[key].at

RememberInv ==
    /\ now \in Nat
    /\ \A key \in DOMAIN admitted :
          admitted[key].at \in Nat /\ Remembered(key, dedup, now)

\* Expiry and recency forget nothing whose lifetime has not passed.
LEMMA ExpireRemembers ==
    ASSUME NEW cache, NEW time, NEW key, Remembered(key, cache, time)
    PROVE  Remembered(key, Expire(cache, time), time)
BY DEF Remembered, Expire, Expired, MapDrop

LEMMA AfterAdmitRemembers ==
    ASSUME NEW cache, NEW time, NEW key, NEW k, NEW print, Remembered(key, cache, time)
    PROVE  Remembered(key, AfterAdmit(cache, k, print, time), time)
<1> DEFINE live == Expire(cache, time)
<1>1. Remembered(key, live, time)
  BY ExpireRemembers
<1>2. live = [entries |-> live.entries, order |-> live.order]
  BY DEF Expire
<1> HIDE DEF live
<1>3. Touch(live, k).entries = live.entries
  BY <1>2 DEF Touch
<1>4. Remembered(key, Touch(live, k), time)
  BY <1>1, <1>3 DEF Remembered
<1> QED BY <1>1, <1>4 DEF AfterAdmit, live

LEMMA RememberStep == RememberInv /\ [DirectNext]_directVars => RememberInv'
<1> SUFFICES ASSUME RememberInv, [DirectNext]_directVars PROVE RememberInv'
  OBVIOUS
<1>1. ASSUME NEW request \in Messages, Accept(request) PROVE RememberInv'
  <2> DEFINE key == KeyOf(request)
             live == Expire(dedup, now)
             new == [route |-> TargetOf(request), print |-> request.print, at |-> now]
             cache == [entries |-> MapPut(MapDrop(live.entries, Overflow(live)), key, new),
                       order |-> Append(Without(live.order, Overflow(live)), key)]
  <2>0. Verdict(live, key, request.print) = "Fresh"
    BY <1>1 DEF Accept
  <2>1. key \notin DOMAIN live.entries
    <3> HIDE DEF live, key
    <3> QED BY <2>0 DEF Verdict
  <2>2. /\ dedup' = cache
        /\ admitted' = MapPut(admitted, key, new)
        /\ evicted' = (evicted \cup Overflow(live)) \ {key}
        /\ now' = now
    BY <1>1, <2>1, Zenon DEF Accept, RecordAccepted
  <2>3. ASSUME NEW k \in DOMAIN admitted PROVE Remembered(k, live, now)
    BY <2>3, ExpireRemembers DEF RememberInv
  <2> HIDE DEF key, live, new
  <2>4. /\ DOMAIN admitted' = DOMAIN admitted \cup {key}
        /\ \A k \in DOMAIN admitted' : admitted'[k] = IF k = key THEN new ELSE admitted[k]
    BY <2>2 DEF MapPut
  <2>5. /\ DOMAIN dedup'.entries = (DOMAIN live.entries \ Overflow(live)) \cup {key}
        /\ \A k \in DOMAIN dedup'.entries :
              dedup'.entries[k] = IF k = key THEN new ELSE live.entries[k]
    BY <2>2 DEF MapPut, MapDrop
  <2>6. new.at = now /\ now \in Nat
    BY DEF new, RememberInv
  <2>7. ASSUME NEW k \in DOMAIN admitted'
        PROVE  admitted'[k].at \in Nat /\ Remembered(k, dedup, now)'
    <3>1. CASE k = key
      BY <3>1, <2>4, <2>5, <2>6 DEF Remembered
    <3>2. CASE k # key
      <4>1. k \in DOMAIN admitted /\ admitted'[k] = admitted[k] /\ admitted[k].at \in Nat
        BY <3>2, <2>4 DEF RememberInv
      <4>2. Remembered(k, live, now)
        BY <4>1, <2>3
      <4> QED BY <3>2, <4>1, <4>2, <2>2, <2>5 DEF Remembered
    <3> QED BY <3>1, <3>2
  <2>8. now' \in Nat
    BY <2>2, <2>6
  <2> QED BY <2>7, <2>8, Zenon DEF RememberInv
<1>2. ASSUME NEW request \in Messages, Refuse(request) PROVE RememberInv'
  <2>1. dedup' = AfterAdmit(dedup, KeyOf(request), request.print, now)
    BY <1>2 DEF Refuse
  <2>2. \A k \in DOMAIN admitted : Remembered(k, dedup', now)
    BY <2>1, AfterAdmitRemembers DEF RememberInv
  <2> QED BY <1>2, <2>2, Zenon DEF Refuse, RememberInv, Remembered
<1>3. CASE Tick
  <2>1. now' = now + 1 /\ UNCHANGED <<dedup, admitted, evicted>>
    BY <1>3 DEF Tick
  <2> QED BY <2>1, DedupAssumption DEF RememberInv, Remembered
<1>4. ASSUME UNCHANGED <<dedup, now, admitted, evicted>> PROVE RememberInv'
  BY <1>4 DEF RememberInv, Remembered
<1> QED BY <1>1, <1>2, <1>3, <1>4
        DEF DirectNext, inboundVars, directVars, AdoptTrust, BeginDrain

\* No command of a session or an operator makes a queue longer.
LEMMA CommandsDoNotQueue ==
    ASSUME LeaseInv, LeaseCommand, NEW e \in DOMAIN queues \cap DOMAIN queues'
    PROVE  ~(Len(queues'[e].events) > Len(queues[e].events))
<1>1. queues[e].events \in Seq(DirectEvent)
  BY DEF LeaseInv, LeaseTypeOK, IsMap
<1> DEFINE Longer == Len(queues'[e].events) > Len(queues[e].events)
<1>2. ASSUME queues'[e].events = queues[e].events PROVE ~Longer
  BY <1>1, <1>2
<1>3. ASSUME NEW config \in Configurations, Configure(config) PROVE ~Longer
  BY <1>3, EmptyMapType DEF Configure
<1>4. ASSUME NEW s \in Sessions, NEW x \in Endpoints, NEW k \in Kinds, Claim(s, x, k)
      PROVE  ~Longer
  <2>1. queues'[e].events = <<>> \/ queues'[e].events = queues[e].events
    BY <1>4 DEF Claim, OpenQueue, MapPut
  <2> QED BY <1>1, <2>1
<1>5. ASSUME NEW x, queues' = MapDrop(queues, x) \/ queues' = queues PROVE ~Longer
  BY <1>2, <1>5 DEF MapDrop
<1>6. ASSUME NEW x \in Endpoints, NEW epoch \in 1..minted, NEW max \in Batches,
             DrainLeased(x, epoch, max)
      PROVE  ~Longer
  <2> DEFINE events == queues[x].events
             take == IF Len(events) < max THEN Len(events) ELSE max
  <2>1. /\ x \in DOMAIN queues
        /\ queues' = [queues EXCEPT ![x].events = SubSeq(events, take + 1, Len(events))]
    BY <1>6 DEF DrainLeased
  <2>2. events \in Seq(DirectEvent) /\ max \in Nat
    BY <2>1, LeaseAssumption DEF LeaseInv, LeaseTypeOK, IsMap
  <2>3. take \in 0..Len(events)
    BY <2>2
  <2> HIDE DEF take
  <2>4. Len(SubSeq(events, take + 1, Len(events))) <= Len(events)
    BY <2>2, <2>3
  <2>5. CASE x = e
    <3>1. queues'[e].events = SubSeq(events, take + 1, Len(events))
      BY <2>1, <2>5 DEF LeaseInv, LeaseTypeOK, IsMap
    <3> QED BY <3>1, <2>2, <2>3, <2>4, <2>5
  <2>6. CASE x # e
    BY <2>1, <2>6, <1>2
  <2> QED BY <2>5, <2>6
<1>7. ASSUME NEW x, Release(x) \/ Revoke(x) \/ Enable(x) \/ Disable(x) \/ SetDefault(x) PROVE ~Longer
  BY <1>5, <1>7 DEF Release, Revoke, Enable, Disable, SetDefault
<1>8. ASSUME NEW x, NEW y, TakeLeaseNotices(x, y) PROVE ~Longer
  BY <1>5, <1>8 DEF TakeLeaseNotices
<1> HIDE DEF Longer
<1>9. ~Longer
  BY <1>3, <1>4, <1>6, <1>7, <1>8 DEF LeaseCommand
<1> QED BY <1>9 DEF Longer

\* What a queue takes was admitted by this step, and was not remembered.
LEMMA AdmitOnceStep ==
    LeaseInv /\ RememberInv /\ [DirectNext]_directVars => [AdmitOnce]_directVars
<1> SUFFICES ASSUME LeaseInv, RememberInv, DirectNext PROVE AdmitOnce
  OBVIOUS
<1>1. ASSUME NEW request \in Messages, Accept(request) PROVE AdmitOnce
  <2> DEFINE target == TargetOf(request)
             key == KeyOf(request)
             live == Expire(dedup, now)
             event == [message |-> request, under |-> leases[target].epoch]
  <2>1. /\ target \in DOMAIN queues /\ key \notin DOMAIN live.entries
        /\ queues' = [queues EXCEPT ![target].events = Append(@, event)]
    BY <1>1 DEF Accept, Deliver, HasRoom, Push, Verdict
  <2>2. \A e \in DOMAIN queues : queues[e].events \in Seq(DirectEvent)
    BY DEF LeaseInv, LeaseTypeOK, IsMap
  <2>3. event \in DirectEvent
    BY <1>1 DEF Accept, Resolves, DirectEvent, ActiveLease, LeaseInv, LeaseTypeOK, IsMap
  <2> HIDE DEF event, target
  <2>4. queues'[target].events = Append(queues[target].events, event)
    BY <2>1 DEF LeaseInv, LeaseTypeOK, IsMap
  <2>5. queues'[target].events[Len(queues'[target].events)] = event
    BY <2>1, <2>2, <2>3, <2>4
  <2>6. KeyOf(event.message) = key
    BY DEF event
  <2> HIDE DEF key
  <2>7. \/ key \notin DOMAIN admitted
        \/ key \in evicted
        \/ now - admitted[key].at >= Ttl
    <3>1. SUFFICES ASSUME key \in DOMAIN admitted, key \notin evicted,
                          ~(now - admitted[key].at >= Ttl)
                   PROVE  FALSE
      OBVIOUS
    <3>2. key \in DOMAIN dedup.entries /\ dedup.entries[key].at = admitted[key].at
      BY <3>1 DEF RememberInv, Remembered
    <3>3. key \in DOMAIN live.entries
      BY <3>1, <3>2 DEF Expire, Expired, MapDrop
    <3> QED BY <2>1, <3>3
  <2>8. ASSUME NEW e \in DOMAIN queues \cap DOMAIN queues', e # target
        PROVE  ~(Len(queues'[e].events) > Len(queues[e].events))
    BY <2>1, <2>2, <2>8
  <2> QED BY <2>5, <2>6, <2>7, <2>8 DEF AdmitOnce
<1>2. CASE LeaseCommand
  BY <1>2, CommandsDoNotQueue DEF AdmitOnce
<1>3. ASSUME UNCHANGED queues PROVE AdmitOnce
  <2>1. \A e \in DOMAIN queues : queues[e].events \in Seq(DirectEvent)
    BY DEF LeaseInv, LeaseTypeOK, IsMap
  <2> QED BY <1>3, <2>1 DEF AdmitOnce
<1> QED BY <1>1, <1>2, <1>3
        DEF DirectNext, Refuse, AdoptTrust, BeginDrain, Tick, leaseVars

\* No repetition of a request is queued again while its key is remembered,
\* over every order of requests, commands, trust changes and expiries
\* (`admit_structured`, `DedupCache::admit`, `record_accepted`).
THEOREM DeliveredAtMostOnce == DirectSpec => AtMostOnce
<1>1. DirectInit => RememberInv
  BY DEF DirectInit, RememberInv, EmptyMap
<1> QED BY <1>1, RememberStep, AdmitOnceStep, DirectLeaseInv, PTL DEF DirectSpec, AtMostOnce
=============================================================================
