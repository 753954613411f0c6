------------------------- MODULE DialAdmissionProofs ------------------------
(***************************************************************************)
(* Why the admission funnel keeps its counters exact, always has room for  *)
(* the quarantine of a dial that is out, and grants only what the          *)
(* published snapshot admits, for any number of gates, peers, addresses    *)
(* and any limits.                                                         *)
(*                                                                         *)
(* Most of the argument is about one gate: what its ticket holds follows   *)
(* from where it is in `admit`, and what it concluded from its snapshot is *)
(* true of the published one while it is fresh. The room for quarantines   *)
(* needs two counts. `Sound` gates hold an outcome that was reserved       *)
(* against the snapshot still in force; `Unseen` quarantines are the ones  *)
(* the manager has made and not published, each paid for by an outcome it  *)
(* has not returned.                                                       *)
(***************************************************************************)
EXTENDS DialAdmission, FiniteSetTheorems, TLAPS

Steps == {"idle", "load", "flag", "current", "pending", "connection", "outcome",
          "reflag", "recurrent", "granted", "drop"}

PolicyState == [authorized : SUBSET Peers, until : [Keys -> Nat], book : SUBSET Keys,
                open : BOOLEAN]

GateState == [pc : Steps, key : Keys \cup {NoKey}, at : Nat, snap : PolicyState,
              fresh : BOOLEAN, again : BOOLEAN, tries : Nat, held : SUBSET Counters]

ManagerState == [pc : {"idle", "settle", "drop", "install", "return"}, keeps : BOOLEAN]

\* What the ticket of a gate holds at each step of `admit`: the reservations
\* are taken in one order and dropped in the opposite one.
HeldOK(me) ==
    /\ me.pc \in {"idle", "load", "flag", "current", "pending"} => me.held = {}
    /\ me.pc = "connection" => me.held = {"pending"}
    /\ me.pc = "outcome" => me.held = {"pending", "connection"}
    /\ me.pc \in {"reflag", "recurrent", "granted"} => me.held = Counters
    /\ me.pc = "drop" =>
        /\ "pending" \in me.held
        /\ "outcome" \in me.held => "connection" \in me.held

\* What a gate knows: its time has come, a fresh snapshot is the published
\* one, and a gate past the verdict has a snapshot that admits its dial.
KnowsOK(me, shown, time) ==
    /\ me.at <= time
    /\ me.pc # "idle" => me.key \in Keys
    /\ me.fresh => me.snap = shown
    /\ me.pc \in {"pending", "connection", "outcome", "reflag", "recurrent"} =>
        PolicyAdmits(me.snap, me.key, me.at)

\* A gate whose outcome was reserved against the snapshot still in force, or
\* that was granted on the strength of it.
Sound(me) ==
    \/ me.pc = "granted"
    \/ me.pc \in {"reflag", "recurrent"} /\ me.fresh

Sounds == {g \in Gates : Sound(gate[g])}

\* Quarantines the manager has made and the published snapshot does not show
\* in full.
Unseen(p, shown, time) ==
    {key \in LiveQuarantines(p, time) :
        key \in shown.book \/ shown.until[key] < p.until[key]}

\* The outcomes that pay for them: settled, not yet published.
Unshown ==
    IF manager.pc = "return" THEN 0
    ELSE toReturn + (IF manager.pc = "settle" THEN 1 ELSE 0)

DialTypeOK ==
    /\ now \in Nat /\ policy \in PolicyState /\ published \in PolicyState
    /\ shuttingDown \in BOOLEAN
    /\ pending \in Nat /\ connections \in Nat /\ outcomes \in Nat
    /\ toReturn \in Nat /\ slots \in Nat
    /\ manager \in ManagerState
    /\ gate \in [Gates -> GateState]

GatesOK == \A g \in Gates : HeldOK(gate[g]) /\ KnowsOK(gate[g], published, now)

\* Every sound gate has room for its quarantine beside the live ones.
RoomOK ==
    /\ Cardinality(Sounds) + Cardinality(LiveQuarantines(policy, now)) <= MaxAddresses
    /\ Cardinality(Unseen(policy, published, now)) <= Unshown

\* The inductive invariant.
AdmissionInv == DialTypeOK /\ GatesOK /\ CountersExact /\ RoomOK

-----------------------------------------------------------------------------
(* Counting. *)

\* Two sets that differ at most in one element differ in size accordingly:
\* what one atomic step of one gate does to the set of gates holding a
\* reservation.
LEMMA OneApart ==
  ASSUME NEW S, NEW T, NEW g, IsFiniteSet(S), S \ {g} = T \ {g}
  PROVE  /\ IsFiniteSet(T) /\ Cardinality(S) \in Nat /\ Cardinality(T) \in Nat
         /\ (g \in S <=> g \in T) => Cardinality(T) = Cardinality(S)
         /\ g \in S /\ g \notin T => Cardinality(T) = Cardinality(S) - 1
         /\ g \notin S /\ g \in T => Cardinality(T) = Cardinality(S) + 1
<1>1. CASE g \in S <=> g \in T
  <2>1. S = T
    BY <1>1
  <2> QED BY <1>1, <2>1, FS_CardinalityType, Zenon
<1>2. CASE g \in S /\ g \notin T
  <2>1. T = S \ {g}
    BY <1>2, Zenon
  <2> QED BY <1>2, <2>1, FS_RemoveElement, FS_CardinalityType, Zenon
<1>3. CASE g \notin S /\ g \in T
  <2>1. T = S \cup {g}
    BY <1>3, Zenon
  <2> QED BY <1>3, <2>1, FS_AddElement, FS_CardinalityType, Zenon
<1> QED BY <1>1, <1>2, <1>3, Zenon

\* A set included in a finite one is finite and no larger.
LEMMA Smaller ==
  ASSUME NEW S, NEW T, IsFiniteSet(S), T \subseteq S
  PROVE  /\ IsFiniteSet(T) /\ Cardinality(S) \in Nat /\ Cardinality(T) \in Nat
         /\ Cardinality(T) <= Cardinality(S)
BY FS_Subset, FS_CardinalityType, Zenon

\* A set that gains at most one element grows by at most one.
LEMMA OneMore ==
  ASSUME NEW S, NEW T, NEW x, IsFiniteSet(S), T \subseteq S \cup {x}
  PROVE  /\ IsFiniteSet(T) /\ Cardinality(S) \in Nat /\ Cardinality(T) \in Nat
         /\ Cardinality(T) <= Cardinality(S) + 1
<1>1. /\ IsFiniteSet(S \cup {x})
      /\ Cardinality(S \cup {x}) <= Cardinality(S) + 1
      /\ Cardinality(S) \in Nat
  BY FS_AddElement, FS_CardinalityType
<1>2. Cardinality(S \cup {x}) \in Nat
  BY <1>1, FS_CardinalityType, Zenon
<1> QED BY <1>1, <1>2, Smaller

\* There are finitely many dial addresses.
LEMMA KeysFinite == IsFiniteSet(Keys)
<1> DEFINE pairs == Peers \X Addresses
           f == [x \in pairs |-> [peer |-> x[1], address |-> x[2]]]
<1>1. IsFiniteSet(pairs)
  BY FS_Product, AdmissionAssumption, Zenon
<1>2. f \in Surjection(pairs, Keys)
  <2>1. f \in [pairs -> Keys]
    BY Zenon DEF Keys
  <2>2. ASSUME NEW k \in Keys PROVE \E x \in pairs : f[x] = k
    <3>1. <<k.peer, k.address>> \in pairs /\ f[<<k.peer, k.address>>] = k
      BY Zenon DEF Keys
    <3> QED BY <3>1, Zenon
  <2> QED BY <2>1, <2>2, Zenon DEF Surjection
<1> QED BY <1>1, <1>2, FS_Surjection, Zenon

\* The live quarantines, seen or not, are finitely many.
LEMMA QuarantinesFinite ==
  ASSUME NEW p, NEW shown, NEW time
  PROVE  /\ IsFiniteSet(LiveQuarantines(p, time))
         /\ IsFiniteSet(Unseen(p, shown, time))
         /\ Cardinality(LiveQuarantines(p, time)) \in Nat
         /\ Cardinality(Unseen(p, shown, time)) \in Nat
<1>1. LiveQuarantines(p, time) \subseteq Keys /\ Unseen(p, shown, time) \subseteq Keys
  BY Zenon DEF LiveQuarantines, Unseen
<1> QED BY <1>1, KeysFinite, Smaller, Zenon

\* The sets of gates the invariant counts are finite.
LEMMA GateSetsFinite ==
  /\ \A what : IsFiniteSet(Holding(what)) /\ Cardinality(Holding(what)) \in Nat
  /\ IsFiniteSet(Sounds) /\ Cardinality(Sounds) \in Nat
<1>1. Sounds \subseteq Gates /\ \A what : Holding(what) \subseteq Gates
  BY Zenon DEF Sounds, Holding
<1> QED BY <1>1, Smaller, AdmissionAssumption, Zenon

-----------------------------------------------------------------------------
(* One step of one gate. *)

\* How many reservations of a kind one ticket holds.
Bit(me, what) == IF what \in me.held THEN 1 ELSE 0

\* Every live quarantine of the manager's policy is live in the published
\* snapshot or unseen.
LEMMA SeenOrNot ==
  ASSUME NEW p \in PolicyState, NEW shown \in PolicyState, NEW time \in Nat
  PROVE  Cardinality(LiveQuarantines(p, time)) <=
             Cardinality(LiveQuarantines(shown, time)) + Cardinality(Unseen(p, shown, time))
<1> DEFINE A == LiveQuarantines(shown, time)
           B == Unseen(p, shown, time)
           C == LiveQuarantines(p, time)
<1>1. C \subseteq A \cup B
  BY DEF LiveQuarantines, Unseen, Live, PolicyState
<1>2. /\ IsFiniteSet(A) /\ IsFiniteSet(B) /\ Cardinality(A) \in Nat /\ Cardinality(B) \in Nat
      /\ IsFiniteSet(C) /\ Cardinality(C) \in Nat
  BY QuarantinesFinite, Zenon
<1> HIDE DEF A, B, C
<1>3. /\ IsFiniteSet(A \cup B)
      /\ Cardinality(A \cup B) = Cardinality(A) + Cardinality(B) - Cardinality(A \cap B)
      /\ IsFiniteSet(A \cap B)
  BY <1>2, FS_Union, FS_Intersection, Zenon
<1>4. Cardinality(A \cap B) \in Nat
  BY <1>3, FS_CardinalityType, Zenon
<1>5. Cardinality(C) <= Cardinality(A \cup B) /\ Cardinality(A \cup B) \in Nat
  BY <1>1, <1>3, Smaller, Zenon
<1>6. Cardinality(C) <= Cardinality(A) + Cardinality(B)
  BY <1>2, <1>3, <1>4, <1>5
<1> QED BY <1>6, Zenon DEF A, B, C

\* A counter moves with the ticket of the gate that moved.
LEMMA HoldingMoves ==
  ASSUME NEW g \in Gates, NEW new, gate \in [Gates -> GateState],
         gate' = [gate EXCEPT ![g] = new], NEW what
  PROVE  Cardinality(Holding(what)') =
             Cardinality(Holding(what)) + Bit(new, what) - Bit(gate[g], what)
<1> DEFINE S == Holding(what)
           T == Holding(what)'
<1>1. gate'[g] = new /\ \A h \in Gates \ {g} : gate'[h] = gate[h]
  BY Zenon
<1>2. S \ {g} = T \ {g}
  BY <1>1, Zenon DEF Holding
<1>3. (g \in S <=> what \in gate[g].held) /\ (g \in T <=> what \in new.held)
  BY <1>1, Zenon DEF Holding
<1>4. IsFiniteSet(S)
  BY GateSetsFinite, Zenon
<1> HIDE DEF S, T
<1>5. Cardinality(T) = Cardinality(S) + Bit(new, what) - Bit(gate[g], what)
  BY <1>2, <1>3, <1>4, OneApart DEF Bit
<1> QED BY <1>5, Zenon DEF S, T

\* A sound gate holds an outcome.
LEMMA SoundsHold ==
  ASSUME AdmissionInv
  PROVE  Cardinality(Sounds) <= Cardinality(Holding("outcome"))
<1>1. Sounds \subseteq Holding("outcome")
  BY Zenon DEF AdmissionInv, GatesOK, HeldOK, Sounds, Sound, Holding, Counters
<1> QED BY <1>1, GateSetsFinite, Smaller, Zenon

\* Whatever atomic access of `admit` or of `Drop for DialTicket` it is, a
\* step of one gate keeps the invariant if its ticket and its knowledge are
\* in order, the counters moved with the ticket and within the limits, and
\* it became sound only with room to spare.
LEMMA GateMoveInv ==
  ASSUME AdmissionInv, NEW g \in Gates, NEW new \in GateState,
         HeldOK(new), KnowsOK(new, published, now),
         gate' = [gate EXCEPT ![g] = new], UNCHANGED now, ManagerUnchanged,
         pending' = pending + Bit(new, "pending") - Bit(gate[g], "pending"),
         connections' = connections + Bit(new, "connection") - Bit(gate[g], "connection"),
         outcomes' = outcomes + Bit(new, "outcome") - Bit(gate[g], "outcome"),
         pending' <= MaxPending, connections' <= MaxConnections,
         Sound(new) => \/ Sound(gate[g])
                       \/ outcomes' + Cardinality(LiveQuarantines(published, now))
                            <= MaxAddresses
  PROVE  AdmissionInv'
<1>1. gate'[g] = new /\ \A h \in Gates \ {g} : gate'[h] = gate[h]
  BY Zenon DEF AdmissionInv, DialTypeOK
<1>2. gate' \in [Gates -> GateState]
  BY Zenon DEF AdmissionInv, DialTypeOK
<1>3. /\ policy' = policy /\ published' = published /\ manager' = manager
      /\ toReturn' = toReturn /\ slots' = slots /\ shuttingDown' = shuttingDown
  BY Zenon DEF ManagerUnchanged
<1>4. GatesOK'
  BY <1>1, <1>3, Zenon DEF AdmissionInv, GatesOK
<1>5. \A what : Cardinality(Holding(what)') =
             Cardinality(Holding(what)) + Bit(new, what) - Bit(gate[g], what)
  BY HoldingMoves, Zenon DEF AdmissionInv, DialTypeOK
<1>6. /\ pending' = Cardinality(Holding("pending")') + (IF manager.pc = "settle" THEN 1 ELSE 0)
      /\ connections' = Cardinality(Holding("connection")') + slots
                          + (IF manager.pc \in {"settle", "drop"} THEN 1 ELSE 0)
      /\ outcomes' = Cardinality(Holding("outcome")') + toReturn
                       + (IF manager.pc = "settle" THEN 1 ELSE 0)
  <2>1. \A what : Cardinality(Holding(what)) \in Nat /\ Bit(new, what) \in {0, 1}
                    /\ Bit(gate[g], what) \in {0, 1}
    BY GateSetsFinite, Zenon DEF Bit
  <2>2. /\ pending \in Nat /\ connections \in Nat /\ outcomes \in Nat
        /\ toReturn \in Nat /\ slots \in Nat
    BY Zenon DEF AdmissionInv, DialTypeOK
  <2> QED BY <1>5, <2>1, <2>2 DEF AdmissionInv, CountersExact
<1>7. CountersExact'
  BY <1>3, <1>6, Zenon DEF CountersExact
<1>8. DialTypeOK'
  <2>1. \A what : Cardinality(Holding(what)') \in Nat
    <3>1. ASSUME NEW what PROVE Cardinality(Holding(what)') \in Nat
      <4>1. Holding(what)' \subseteq Gates
        BY Zenon DEF Holding
      <4> QED BY <4>1, Smaller, AdmissionAssumption, Zenon
    <3> QED BY <3>1, Zenon
  <2>2. pending' \in Nat /\ connections' \in Nat /\ outcomes' \in Nat
    BY <1>6, <2>1 DEF AdmissionInv, DialTypeOK
  <2> QED BY <1>2, <1>3, <2>2, Zenon DEF AdmissionInv, DialTypeOK
<1>9. Unshown' = Unshown
  BY <1>3, Zenon DEF Unshown
<1>10. Cardinality(Unseen(policy, published, now)') <= Unshown'
  BY <1>3, <1>9, Zenon DEF AdmissionInv, RoomOK, Unseen, LiveQuarantines, Live
<1>11. Cardinality(Sounds') + Cardinality(LiveQuarantines(policy, now)) <= MaxAddresses
  <2>1. Sounds \ {g} = Sounds' \ {g} /\ (g \in Sounds' <=> Sound(new))
            /\ (g \in Sounds <=> Sound(gate[g])) /\ IsFiniteSet(Sounds)
    BY <1>1, GateSetsFinite, Zenon DEF Sounds
  <2>2. /\ Cardinality(Sounds) \in Nat /\ Cardinality(Sounds') \in Nat /\ IsFiniteSet(Sounds')
    BY <2>1, OneApart, Zenon
  <2>3. Cardinality(LiveQuarantines(policy, now)) \in Nat
    BY QuarantinesFinite, Zenon
  <2>4. CASE Sound(new) => Sound(gate[g])
    <3>1. Cardinality(Sounds') <= Cardinality(Sounds)
      BY <2>1, <2>2, <2>4, OneApart
    <3>2. MaxAddresses \in Nat
      BY AdmissionAssumption, Zenon
    <3> QED BY <2>2, <2>3, <3>1, <3>2 DEF AdmissionInv, RoomOK
  <2>5. CASE outcomes' + Cardinality(LiveQuarantines(published, now)) <= MaxAddresses
    <3>1. Sounds' \subseteq Holding("outcome")'
      BY <1>4, Zenon DEF GatesOK, HeldOK, Sounds, Sound, Holding, Counters
    <3>2. IsFiniteSet(Holding("outcome")')
      <4>1. Holding("outcome")' \subseteq Gates
        BY Zenon DEF Holding
      <4> QED BY <4>1, Smaller, AdmissionAssumption, Zenon
    <3>3. /\ Cardinality(Sounds') <= Cardinality(Holding("outcome")')
          /\ Cardinality(Holding("outcome")') \in Nat
      BY <3>1, <3>2, Smaller, Zenon
    <3>4. Cardinality(LiveQuarantines(policy, now)) <=
              Cardinality(LiveQuarantines(published, now))
                + Cardinality(Unseen(policy, published, now))
      BY SeenOrNot, Zenon DEF AdmissionInv, DialTypeOK
    <3>5. Cardinality(Unseen(policy, published, now)) <=
              toReturn + (IF manager.pc = "settle" THEN 1 ELSE 0)
      <4>1. Cardinality(Unseen(policy, published, now)) <= Unshown /\ toReturn \in Nat
        BY Zenon DEF AdmissionInv, DialTypeOK, RoomOK
      <4>2. Cardinality(Unseen(policy, published, now)) \in Nat
        BY QuarantinesFinite, Zenon
      <4>3. CASE manager.pc = "return"
        BY <4>1, <4>2, <4>3 DEF Unshown
      <4>4. CASE manager.pc # "return"
        BY <4>1, <4>4, Zenon DEF Unshown
      <4> QED BY <4>3, <4>4, Zenon
    <3>6. /\ Cardinality(LiveQuarantines(published, now)) \in Nat
          /\ Cardinality(Unseen(policy, published, now)) \in Nat
      BY QuarantinesFinite, Zenon
    <3>7. toReturn \in Nat /\ MaxAddresses \in Nat
      BY AdmissionAssumption, Zenon DEF AdmissionInv, DialTypeOK
    <3> QED BY <1>6, <2>2, <2>3, <2>5, <3>3, <3>4, <3>5, <3>6, <3>7
  <2> QED BY <2>4, <2>5, Zenon
<1>12. LiveQuarantines(policy, now)' = LiveQuarantines(policy, now)
  BY <1>3, Zenon DEF LiveQuarantines, Live
<1>13. RoomOK'
  BY <1>10, <1>11, <1>12, Zenon DEF RoomOK
<1> QED BY <1>4, <1>7, <1>8, <1>13, Zenon DEF AdmissionInv


\* A gate at rest holds and claims nothing.
LEMMA RestingIs ==
  ASSUME NEW shown, NEW time \in Nat
  PROVE  /\ NewPolicy \in PolicyState
         /\ Resting \in GateState /\ HeldOK(Resting) /\ KnowsOK(Resting, shown, time)
         /\ Resting.held = {} /\ ~Sound(Resting)
<1>1. NewPolicy \in PolicyState
  BY Zenon DEF NewPolicy, PolicyState
<1> QED BY <1>1 DEF Resting, GateState, HeldOK, KnowsOK, Sound, Steps

\* A step that leaves every counter and every ticket alone.
LEMMA QuietInv ==
  ASSUME AdmissionInv, NEW g \in Gates, NEW new \in GateState,
         HeldOK(new), KnowsOK(new, published, now), new.held = gate[g].held,
         Sound(new) => Sound(gate[g]),
         gate' = [gate EXCEPT ![g] = new], UNCHANGED now, CountersUnchanged, ManagerUnchanged
  PROVE  AdmissionInv'
<1>1. /\ pending \in Nat /\ connections \in Nat /\ outcomes \in Nat
      /\ pending <= MaxPending /\ connections <= MaxConnections
  BY Zenon DEF AdmissionInv, DialTypeOK, CountersExact
<1>2. \A what : Bit(new, what) = Bit(gate[g], what) /\ Bit(new, what) \in Nat
  BY Zenon DEF Bit
<1>3. pending' = pending /\ connections' = connections /\ outcomes' = outcomes
  BY Zenon DEF CountersUnchanged
<1>4. /\ pending' = pending + Bit(new, "pending") - Bit(gate[g], "pending")
      /\ connections' = connections + Bit(new, "connection") - Bit(gate[g], "connection")
      /\ outcomes' = outcomes + Bit(new, "outcome") - Bit(gate[g], "outcome")
      /\ pending' <= MaxPending /\ connections' <= MaxConnections
  BY <1>1, <1>2, <1>3
<1> QED BY <1>4, GateMoveInv, Zenon

\* The facts about one gate that its steps start from.
LEMMA GateFacts ==
  ASSUME AdmissionInv, NEW g \in Gates
  PROVE  /\ gate[g] \in GateState /\ HeldOK(gate[g]) /\ KnowsOK(gate[g], published, now)
         /\ now \in Nat /\ published \in PolicyState
         /\ gate = [gate EXCEPT ![g] = gate[g]]
BY Zenon DEF AdmissionInv, DialTypeOK, GatesOK

\* An attempt that is over leaves a gate that holds nothing: at rest, or
\* about to load the snapshot again.
LEMMA OverIs ==
  ASSUME AdmissionInv, NEW g \in Gates, gate[g].pc # "idle", NEW again, Over(g, again)
  PROVE  \E new \in GateState :
             /\ HeldOK(new) /\ KnowsOK(new, published, now)
             /\ new.held = {} /\ ~Sound(new)
             /\ gate' = [gate EXCEPT ![g] = new]
<1> DEFINE me == gate[g]
           more == [me EXCEPT !.pc = "load", !.held = {}, !.snap = NewPolicy, !.fresh = FALSE]
<1>1. /\ me \in GateState /\ HeldOK(me) /\ KnowsOK(me, published, now) /\ now \in Nat
      /\ me.pc # "idle"
  BY GateFacts, Zenon
<1>2. gate' = [gate EXCEPT ![g] = more] \/ gate' = [gate EXCEPT ![g] = Resting]
  BY Zenon DEF Over
<1> HIDE DEF me
<1>3. more \in GateState
  BY <1>1, RestingIs, Zenon DEF GateState, Steps
<1>4. HeldOK(more) /\ KnowsOK(more, published, now) /\ more.held = {} /\ ~Sound(more)
  BY <1>1, Zenon DEF GateState, HeldOK, KnowsOK, Sound
<1> HIDE DEF more
<1> QED BY <1>1, <1>2, <1>3, <1>4, RestingIs, Zenon

\* A refusal, final or not, with a ticket to drop or without.
LEMMA RefuseInv ==
  ASSUME AdmissionInv, NEW g \in Gates, gate[g].pc # "idle", gate[g].pc # "drop",
         NEW again \in BOOLEAN, Refuse(g, again),
         UNCHANGED now, CountersUnchanged, ManagerUnchanged
  PROVE  AdmissionInv'
<1> DEFINE me == gate[g]
           new == [me EXCEPT !.pc = "drop", !.again = again, !.snap = NewPolicy,
                             !.fresh = FALSE]
<1>1. /\ me \in GateState /\ HeldOK(me) /\ KnowsOK(me, published, now) /\ now \in Nat
      /\ me.pc # "idle" /\ me.pc # "drop"
  BY GateFacts, Zenon
<1>2. CASE me.held = {}
  <2>1. Over(g, again)
    BY <1>2, Zenon DEF Refuse
  <2>2. PICK n \in GateState :
             /\ HeldOK(n) /\ KnowsOK(n, published, now)
             /\ n.held = {} /\ ~Sound(n)
             /\ gate' = [gate EXCEPT ![g] = n]
    BY <2>1, OverIs, Zenon
  <2> QED BY <1>2, <2>2, QuietInv, Zenon
<1>3. CASE me.held # {}
  <2>1. gate' = [gate EXCEPT ![g] = new]
    BY <1>3, GateFacts, Zenon DEF Refuse, AdmissionInv, DialTypeOK
  <2> HIDE DEF me
  <2>2. new \in GateState
    BY <1>1, RestingIs, Zenon DEF GateState, Steps
  <2>3. HeldOK(new)
    BY <1>1, <1>3, Zenon DEF GateState, HeldOK, Counters, Steps
  <2>4. KnowsOK(new, published, now) /\ new.held = me.held /\ ~Sound(new)
    BY <1>1, Zenon DEF GateState, KnowsOK, Sound
  <2> HIDE DEF new
  <2> QED BY <2>1, <2>2, <2>3, <2>4, QuietInv, Zenon DEF me
<1> QED BY <1>2, <1>3, Zenon

\* A gate that goes on to a later step with the same ticket and snapshot.
LEMMA GotoInv ==
  ASSUME AdmissionInv, NEW g \in Gates, NEW step, Goto(g, step),
         \/ gate[g].pc = "flag" /\ step = "current"
         \/ /\ gate[g].pc = "current" /\ step = "pending"
            /\ PolicyAdmits(gate[g].snap, gate[g].key, gate[g].at)
         \/ gate[g].pc = "reflag" /\ step = "recurrent"
         \/ gate[g].pc = "granted" /\ step = "drop",
         UNCHANGED now, CountersUnchanged, ManagerUnchanged
  PROVE  AdmissionInv'
<1> DEFINE me == gate[g]
           new == [me EXCEPT !.pc = step]
<1>1. /\ me \in GateState /\ HeldOK(me) /\ KnowsOK(me, published, now) /\ now \in Nat
  BY GateFacts, Zenon
<1>2. gate' = [gate EXCEPT ![g] = new]
  BY Zenon DEF Goto
<1>3. \/ me.pc = "flag" /\ step = "current"
      \/ me.pc = "current" /\ step = "pending" /\ PolicyAdmits(me.snap, me.key, me.at)
      \/ me.pc = "reflag" /\ step = "recurrent"
      \/ me.pc = "granted" /\ step = "drop"
  BY Zenon
<1> HIDE DEF me
<1>4. new \in GateState
  BY <1>1, <1>3, Zenon DEF GateState, Steps
<1>5. HeldOK(new) /\ new.held = me.held /\ (Sound(new) => Sound(me))
  BY <1>1, <1>3, Zenon DEF GateState, HeldOK, Counters, Sound
<1>6. KnowsOK(new, published, now)
  BY <1>1, <1>3, Zenon DEF GateState, KnowsOK
<1> HIDE DEF new
<1> QED BY <1>2, <1>4, <1>5, <1>6, QuietInv, Zenon DEF me


\* The caller's question and the load of the snapshot.
LEMMA LoadInv ==
  ASSUME AdmissionInv, NEW g \in Gates,
         (\E key \in Keys : Ask(g, key)) \/ Load(g)
  PROVE  AdmissionInv'
<1> DEFINE me == gate[g]
<1>1. /\ me \in GateState /\ HeldOK(me) /\ KnowsOK(me, published, now)
      /\ now \in Nat /\ published \in PolicyState
  BY GateFacts, Zenon
<1>2. ASSUME NEW key \in Keys, Ask(g, key) PROVE AdmissionInv'
  <2> DEFINE new == [Resting EXCEPT !.pc = "load", !.key = key, !.at = now]
  <2>1. /\ me.pc = "idle" /\ gate' = [gate EXCEPT ![g] = new]
        /\ UNCHANGED now /\ CountersUnchanged /\ ManagerUnchanged
    BY <1>2, Zenon DEF Ask
  <2> HIDE DEF me
  <2>2. new \in GateState
    BY <1>1, RestingIs, Zenon DEF GateState, Steps, Resting
  <2>3. HeldOK(new) /\ KnowsOK(new, published, now) /\ new.held = me.held /\ ~Sound(new)
    BY <1>1, <2>1 DEF HeldOK, KnowsOK, Sound, Resting
  <2> HIDE DEF new
  <2> QED BY <2>1, <2>2, <2>3, QuietInv, Zenon DEF me
<1>3. CASE Load(g)
  <2> DEFINE new == [me EXCEPT !.snap = published, !.fresh = TRUE, !.again = FALSE,
                               !.tries = @ + 1, !.pc = "flag"]
  <2>1. /\ me.pc = "load" /\ gate' = [gate EXCEPT ![g] = new]
        /\ UNCHANGED now /\ CountersUnchanged /\ ManagerUnchanged
    BY <1>3, GateFacts, Zenon DEF Load
  <2> HIDE DEF me
  <2>2. new \in GateState
    <3> DEFINE half == [me EXCEPT !.snap = published, !.fresh = TRUE, !.again = FALSE]
    <3>1. half \in GateState /\ half.tries = me.tries
      BY <1>1, Zenon DEF GateState
    <3>2. new = [half EXCEPT !.tries = @ + 1, !.pc = "flag"]
      BY <1>1, Zenon DEF GateState
    <3> HIDE DEF half, new
    <3>3. half.tries + 1 \in Nat /\ "flag" \in Steps
      BY <3>1 DEF GateState, Steps
    <3> QED BY <3>1, <3>2, <3>3, Zenon DEF GateState
  <2>3. HeldOK(new) /\ KnowsOK(new, published, now) /\ new.held = me.held /\ ~Sound(new)
    BY <1>1, <2>1, Zenon DEF GateState, HeldOK, KnowsOK, Sound
  <2> HIDE DEF new
  <2> QED BY <2>1, <2>2, <2>3, QuietInv, Zenon DEF me
<1> QED BY <1>2, <1>3, Zenon

\* A reservation that succeeds takes one from its counter and puts it on the
\* ticket. For the outcome, the room of a snapshot that is still fresh is
\* room beside the published quarantines.
LEMMA ReserveIs ==
  ASSUME AdmissionInv, NEW g \in Gates, NEW what, NEW next,
         \/ gate[g].pc = "pending" /\ what = "pending" /\ next = "connection"
         \/ gate[g].pc = "connection" /\ what = "connection" /\ next = "outcome"
         \/ gate[g].pc = "outcome" /\ what = "outcome" /\ next = "reflag",
         gate' = [gate EXCEPT ![g].held = @ \cup {what}, ![g].pc = next]
  PROVE  \E new \in GateState :
             /\ HeldOK(new) /\ KnowsOK(new, published, now)
             /\ gate' = [gate EXCEPT ![g] = new]
             /\ what \notin gate[g].held /\ new.held = gate[g].held \cup {what}
             /\ Sound(new) => what = "outcome" /\ gate[g].fresh
<1> DEFINE me == gate[g]
           new == [me EXCEPT !.held = @ \cup {what}, !.pc = next]
<1>1. /\ me \in GateState /\ HeldOK(me) /\ KnowsOK(me, published, now)
  BY GateFacts, Zenon
<1>2. gate' = [gate EXCEPT ![g] = new]
  BY GateFacts, Zenon
<1>3. \/ me.pc = "pending" /\ what = "pending" /\ next = "connection"
      \/ me.pc = "connection" /\ what = "connection" /\ next = "outcome"
      \/ me.pc = "outcome" /\ what = "outcome" /\ next = "reflag"
  BY Zenon
<1> HIDE DEF me
<1>4. new \in GateState
  BY <1>1, <1>3, Zenon DEF GateState, Steps, Counters
<1>5. HeldOK(new) /\ what \notin me.held /\ new.held = me.held \cup {what}
  BY <1>1, <1>3 DEF GateState, HeldOK, Counters
<1>6. KnowsOK(new, published, now) /\ (Sound(new) => what = "outcome" /\ me.fresh)
  BY <1>1, <1>3, Zenon DEF GateState, KnowsOK, Sound
<1> HIDE DEF new
<1> QED BY <1>2, <1>4, <1>5, <1>6, Zenon DEF me

\* The three `reserve` calls of `PolicySnapshot::admit`.
LEMMA ReserveInv ==
  ASSUME AdmissionInv, NEW g \in Gates,
         ReservePending(g) \/ ReserveConnection(g) \/ ReserveOutcome(g)
  PROVE  AdmissionInv'
<1>1. /\ pending \in Nat /\ connections \in Nat /\ outcomes \in Nat
      /\ pending <= MaxPending /\ connections <= MaxConnections
      /\ MaxPending \in Nat /\ MaxConnections \in Nat /\ MaxAddresses \in Nat
  BY AdmissionAssumption, Zenon DEF AdmissionInv, DialTypeOK, CountersExact
<1>2. CASE ReservePending(g)
  <2>1. CASE pending >= MaxPending
    BY <1>2, <2>1, RefuseInv, Zenon DEF ReservePending, Reserve, Deny, CountersUnchanged
  <2>2. CASE ~(pending >= MaxPending)
    <3>1. PICK new \in GateState :
              /\ HeldOK(new) /\ KnowsOK(new, published, now)
              /\ gate' = [gate EXCEPT ![g] = new]
              /\ "pending" \notin gate[g].held /\ new.held = gate[g].held \cup {"pending"}
              /\ Sound(new) => "pending" = "outcome"
      BY <1>2, <2>2, ReserveIs, Zenon DEF ReservePending, Reserve
    <3>2. /\ Bit(new, "pending") = 1 /\ Bit(gate[g], "pending") = 0
          /\ Bit(new, "connection") = Bit(gate[g], "connection")
          /\ Bit(new, "outcome") = Bit(gate[g], "outcome")
          /\ \A what : Bit(new, what) \in Nat
      BY <3>1, Zenon DEF Bit
    <3>3. /\ pending' = pending + 1 /\ connections' = connections /\ outcomes' = outcomes
          /\ now' = now /\ ManagerUnchanged
      BY <1>2, <2>2, Zenon DEF ReservePending, Reserve
    <3>4. /\ pending' = pending + Bit(new, "pending") - Bit(gate[g], "pending")
          /\ connections' = connections + Bit(new, "connection") - Bit(gate[g], "connection")
          /\ outcomes' = outcomes + Bit(new, "outcome") - Bit(gate[g], "outcome")
          /\ pending' <= MaxPending /\ connections' <= MaxConnections
      BY <1>1, <2>2, <3>2, <3>3
    <3> QED BY <3>1, <3>3, <3>4, GateMoveInv, Zenon
  <2> QED BY <2>1, <2>2, Zenon
<1>3. CASE ReserveConnection(g)
  <2>1. CASE connections >= MaxConnections
    BY <1>3, <2>1, RefuseInv, Zenon DEF ReserveConnection, Reserve, Deny, CountersUnchanged
  <2>2. CASE ~(connections >= MaxConnections)
    <3>1. PICK new \in GateState :
              /\ HeldOK(new) /\ KnowsOK(new, published, now)
              /\ gate' = [gate EXCEPT ![g] = new]
              /\ "connection" \notin gate[g].held
              /\ new.held = gate[g].held \cup {"connection"}
              /\ Sound(new) => "connection" = "outcome"
      BY <1>3, <2>2, ReserveIs, Zenon DEF ReserveConnection, Reserve
    <3>2. /\ Bit(new, "connection") = 1 /\ Bit(gate[g], "connection") = 0
          /\ Bit(new, "pending") = Bit(gate[g], "pending")
          /\ Bit(new, "outcome") = Bit(gate[g], "outcome")
          /\ \A what : Bit(new, what) \in Nat
      BY <3>1, Zenon DEF Bit
    <3>3. /\ pending' = pending /\ connections' = connections + 1 /\ outcomes' = outcomes
          /\ now' = now /\ ManagerUnchanged
      BY <1>3, <2>2, Zenon DEF ReserveConnection, Reserve
    <3>4. /\ pending' = pending + Bit(new, "pending") - Bit(gate[g], "pending")
          /\ connections' = connections + Bit(new, "connection") - Bit(gate[g], "connection")
          /\ outcomes' = outcomes + Bit(new, "outcome") - Bit(gate[g], "outcome")
          /\ pending' <= MaxPending /\ connections' <= MaxConnections
      BY <1>1, <2>2, <3>2, <3>3
    <3> QED BY <3>1, <3>3, <3>4, GateMoveInv, Zenon
  <2> QED BY <2>1, <2>2, Zenon
<1>4. CASE ReserveOutcome(g)
  <2> DEFINE room == OutcomeRoom(gate[g].snap, gate[g].at)
  <2>1. CASE outcomes >= room
    BY <1>4, <2>1, RefuseInv, Zenon DEF ReserveOutcome, Reserve, Deny, CountersUnchanged
  <2>2. CASE ~(outcomes >= room)
    <3>1. PICK new \in GateState :
              /\ HeldOK(new) /\ KnowsOK(new, published, now)
              /\ gate' = [gate EXCEPT ![g] = new]
              /\ "outcome" \notin gate[g].held /\ new.held = gate[g].held \cup {"outcome"}
              /\ Sound(new) => gate[g].fresh
      BY <1>4, <2>2, ReserveIs, Zenon DEF ReserveOutcome, Reserve
    <3>2. /\ Bit(new, "outcome") = 1 /\ Bit(gate[g], "outcome") = 0
          /\ Bit(new, "pending") = Bit(gate[g], "pending")
          /\ Bit(new, "connection") = Bit(gate[g], "connection")
          /\ \A what : Bit(new, what) \in Nat
      BY <3>1, Zenon DEF Bit
    <3>3. /\ pending' = pending /\ connections' = connections /\ outcomes' = outcomes + 1
          /\ now' = now /\ ManagerUnchanged
      BY <1>4, <2>2, Zenon DEF ReserveOutcome, Reserve
    <3>4. ASSUME gate[g].fresh
          PROVE  outcomes' + Cardinality(LiveQuarantines(published, now)) <= MaxAddresses
      <4>1. /\ gate[g].snap = published /\ gate[g].at <= now /\ gate[g].at \in Nat
            /\ now \in Nat /\ published \in PolicyState
        BY <3>4, GateFacts, Zenon DEF KnowsOK, GateState
      <4>2. LiveQuarantines(published, now) \subseteq LiveQuarantines(published, gate[g].at)
        BY <4>1 DEF LiveQuarantines, Live, PolicyState
      <4>3. /\ Cardinality(LiveQuarantines(published, now)) <=
                   Cardinality(LiveQuarantines(published, gate[g].at))
            /\ Cardinality(LiveQuarantines(published, now)) \in Nat
            /\ Cardinality(LiveQuarantines(published, gate[g].at)) \in Nat
        BY <4>2, QuarantinesFinite, Smaller, Zenon
      <4>4. ~(outcomes >= OutcomeRoom(published, gate[g].at))
        BY <2>2, <4>1, Zenon
      <4> QED BY <1>1, <3>3, <4>3, <4>4 DEF OutcomeRoom
    <3>5. /\ pending' = pending + Bit(new, "pending") - Bit(gate[g], "pending")
          /\ connections' = connections + Bit(new, "connection") - Bit(gate[g], "connection")
          /\ outcomes' = outcomes + Bit(new, "outcome") - Bit(gate[g], "outcome")
          /\ pending' <= MaxPending /\ connections' <= MaxConnections
      BY <1>1, <2>2, <3>2, <3>3
    <3> QED BY <3>1, <3>3, <3>4, <3>5, GateMoveInv, Zenon
  <2> QED BY <2>1, <2>2, Zenon
<1> QED BY <1>2, <1>3, <1>4, Zenon


\* The ticket handed out.
LEMMA GrantInv ==
  ASSUME AdmissionInv, NEW g \in Gates, Grant(g)
  PROVE  AdmissionInv'
<1>1. CASE ~gate[g].fresh
  BY <1>1, RefuseInv, Zenon DEF Grant, Supersede
<1>2. CASE gate[g].fresh
  <2> DEFINE me == gate[g]
             new == [Resting EXCEPT !.pc = "granted", !.key = me.key, !.at = me.at,
                                    !.held = Counters]
  <2>1. /\ me \in GateState /\ HeldOK(me) /\ KnowsOK(me, published, now) /\ now \in Nat
    BY GateFacts, Zenon
  <2>2. /\ me.pc = "recurrent" /\ me.fresh /\ gate' = [gate EXCEPT ![g] = new]
        /\ UNCHANGED now /\ CountersUnchanged /\ ManagerUnchanged
    BY <1>2, Zenon DEF Grant, HandOut
  <2> HIDE DEF me
  <2>3. new \in GateState
    BY <2>1, RestingIs, Zenon DEF GateState, Steps, Resting
  <2>4. /\ HeldOK(new) /\ KnowsOK(new, published, now) /\ new.held = me.held
        /\ Sound(me)
    BY <2>1, <2>2, Zenon DEF GateState, HeldOK, KnowsOK, Sound, Resting
  <2> HIDE DEF new
  <2> QED BY <2>2, <2>3, <2>4, QuietInv, Zenon DEF me
<1> QED BY <1>1, <1>2, Zenon

\* One reservation given back by a ticket on its way out.
LEMMA ReleasedIs ==
  ASSUME AdmissionInv, NEW g \in Gates, gate[g].pc = "drop", NEW what, Released(g, what),
         \/ what = "outcome" /\ what \in gate[g].held
         \/ what = "connection" /\ what \in gate[g].held /\ "outcome" \notin gate[g].held
         \/ what = "pending" /\ gate[g].held = {"pending"}
  PROVE  \E new \in GateState :
             /\ HeldOK(new) /\ KnowsOK(new, published, now)
             /\ gate' = [gate EXCEPT ![g] = new]
             /\ what \in gate[g].held /\ new.held = gate[g].held \ {what}
             /\ ~Sound(new)
<1> DEFINE me == gate[g]
           new == [me EXCEPT !.held = @ \ {what}]
<1>1. /\ me \in GateState /\ HeldOK(me) /\ KnowsOK(me, published, now) /\ me.pc = "drop"
  BY GateFacts, Zenon
<1>2. CASE me.held = {what}
  <2>1. Over(g, gate[g].again)
    BY <1>2, Zenon DEF Released
  <2> QED BY <1>1, <1>2, <2>1, OverIs, Zenon
<1>3. CASE me.held # {what}
  <2>1. gate' = [gate EXCEPT ![g] = new]
    BY <1>3, Zenon DEF Released
  <2>2. \/ what = "outcome" /\ what \in me.held
        \/ what = "connection" /\ what \in me.held /\ "outcome" \notin me.held
    BY <1>3, Zenon
  <2> HIDE DEF me
  <2>3. new \in GateState
    BY <1>1, Zenon DEF GateState
  <2>4. HeldOK(new) /\ new.held = me.held \ {what}
    BY <1>1, <2>2, Zenon DEF GateState, HeldOK
  <2>5. KnowsOK(new, published, now) /\ ~Sound(new)
    BY <1>1, Zenon DEF GateState, KnowsOK, Sound
  <2> HIDE DEF new
  <2> QED BY <2>1, <2>2, <2>3, <2>4, <2>5, Zenon DEF me
<1> QED BY <1>2, <1>3, Zenon

\* `Drop for DialTicket`.
LEMMA DropTicketInv ==
  ASSUME AdmissionInv, NEW g \in Gates, DropTicket(g)
  PROVE  AdmissionInv'
<1>1. /\ pending \in Nat /\ connections \in Nat /\ outcomes \in Nat
      /\ pending <= MaxPending /\ connections <= MaxConnections
      /\ MaxPending \in Nat /\ MaxConnections \in Nat
  BY AdmissionAssumption, Zenon DEF AdmissionInv, DialTypeOK, CountersExact
<1>2. PICK what :
        /\ Released(g, what)
        /\ \/ what = "outcome" /\ what \in gate[g].held
           \/ what = "connection" /\ what \in gate[g].held /\ "outcome" \notin gate[g].held
           \/ what = "pending" /\ gate[g].held = {"pending"}
        /\ pending' = pending - (IF what = "pending" THEN 1 ELSE 0)
        /\ connections' = connections - (IF what = "connection" THEN 1 ELSE 0)
        /\ outcomes' = outcomes - (IF what = "outcome" THEN 1 ELSE 0)
  BY <1>1 DEF DropTicket
<1>3. gate[g].pc = "drop" /\ now' = now /\ ManagerUnchanged
  BY Zenon DEF DropTicket
<1>4. PICK new \in GateState :
        /\ HeldOK(new) /\ KnowsOK(new, published, now)
        /\ gate' = [gate EXCEPT ![g] = new]
        /\ what \in gate[g].held /\ new.held = gate[g].held \ {what}
        /\ ~Sound(new)
  BY <1>2, <1>3, ReleasedIs, Zenon
<1>5. \A x : /\ Bit(gate[g], x) = Bit(new, x) + (IF what = x THEN 1 ELSE 0)
             /\ Bit(new, x) \in Nat
  BY <1>4 DEF Bit
<1>6. /\ pending' = pending + Bit(new, "pending") - Bit(gate[g], "pending")
      /\ connections' = connections + Bit(new, "connection") - Bit(gate[g], "connection")
      /\ outcomes' = outcomes + Bit(new, "outcome") - Bit(gate[g], "outcome")
      /\ pending' <= MaxPending /\ connections' <= MaxConnections
  BY <1>1, <1>2, <1>5
<1> QED BY <1>3, <1>4, <1>6, GateMoveInv, Zenon

\* Every step a gate takes.
LEMMA GateStepInv ==
  ASSUME AdmissionInv, NEW g \in Gates,
         (\E key \in Keys : Ask(g, key)) \/ GateStep(g) \/ Abandon(g)
  PROVE  AdmissionInv'
<1>1. CASE (\E key \in Keys : Ask(g, key)) \/ Load(g)
  BY <1>1, LoadInv, Zenon
<1>2. CASE ReadFlag(g)
  BY <1>2, RefuseInv, GotoInv, Zenon DEF ReadFlag, Deny
<1>3. CASE ReadCurrent(g)
  BY <1>3, RefuseInv, GotoInv, Zenon DEF ReadCurrent, Deny, Supersede
<1>4. CASE ReservePending(g) \/ ReserveConnection(g) \/ ReserveOutcome(g)
  BY <1>4, ReserveInv, Zenon
<1>5. CASE RereadFlag(g)
  BY <1>5, RefuseInv, GotoInv, Zenon DEF RereadFlag, Supersede
<1>6. CASE Grant(g)
  BY <1>6, GrantInv, Zenon
<1>7. CASE DropTicket(g)
  BY <1>7, DropTicketInv, Zenon
<1>8. CASE Abandon(g)
  BY <1>8, GotoInv, Zenon DEF Abandon
<1> QED BY <1>1, <1>2, <1>3, <1>4, <1>5, <1>6, <1>7, <1>8, Zenon DEF GateStep


-----------------------------------------------------------------------------
(* The manager's steps. *)

\* The manager between two atomic accesses that leave the gates and the
\* published snapshot alone: the counters stay exact, and the room is kept
\* if the policy's quarantines stay within it and are paid for.
LEMMA AsideInv ==
  ASSUME AdmissionInv, gate' = gate, published' = published, now' = now,
         policy' \in PolicyState, shuttingDown' \in BOOLEAN, manager' \in ManagerState,
         pending' \in Nat, connections' \in Nat, outcomes' \in Nat,
         toReturn' \in Nat, slots' \in Nat,
         pending' = Cardinality(Holding("pending"))
                      + (IF manager'.pc = "settle" THEN 1 ELSE 0),
         connections' = Cardinality(Holding("connection")) + slots'
                          + (IF manager'.pc \in {"settle", "drop"} THEN 1 ELSE 0),
         outcomes' = Cardinality(Holding("outcome")) + toReturn'
                       + (IF manager'.pc = "settle" THEN 1 ELSE 0),
         pending' <= MaxPending, connections' <= MaxConnections,
         Cardinality(Sounds) + Cardinality(LiveQuarantines(policy', now)) <= MaxAddresses,
         Cardinality(Unseen(policy', published, now)) <= Unshown'
  PROVE  AdmissionInv'
<1>1. /\ \A what : Holding(what)' = Holding(what)
      /\ Sounds' = Sounds
  BY Zenon DEF Holding, Sounds
<1>2. DialTypeOK'
  BY Zenon DEF AdmissionInv, DialTypeOK
<1>3. GatesOK'
  BY Zenon DEF AdmissionInv, GatesOK
<1>4. CountersExact'
  BY <1>1, Zenon DEF CountersExact
<1>5. /\ LiveQuarantines(policy, now)' = LiveQuarantines(policy', now)
      /\ Unseen(policy, published, now)' = Unseen(policy', published, now)
  BY Zenon DEF LiveQuarantines, Unseen, Live
<1>6. RoomOK'
  BY <1>1, <1>5, Zenon DEF RoomOK
<1> QED BY <1>2, <1>3, <1>4, <1>6, Zenon DEF AdmissionInv

\* What the manager's steps start from.
LEMMA ManagerFacts ==
  ASSUME AdmissionInv
  PROVE  /\ now \in Nat /\ policy \in PolicyState /\ published \in PolicyState
         /\ shuttingDown \in BOOLEAN /\ manager \in ManagerState
         /\ pending \in Nat /\ connections \in Nat /\ outcomes \in Nat
         /\ toReturn \in Nat /\ slots \in Nat
         /\ pending = Cardinality(Holding("pending"))
                        + (IF manager.pc = "settle" THEN 1 ELSE 0)
         /\ connections = Cardinality(Holding("connection")) + slots
                            + (IF manager.pc \in {"settle", "drop"} THEN 1 ELSE 0)
         /\ outcomes = Cardinality(Holding("outcome")) + toReturn
                         + (IF manager.pc = "settle" THEN 1 ELSE 0)
         /\ pending <= MaxPending /\ connections <= MaxConnections
         /\ Cardinality(Sounds) + Cardinality(LiveQuarantines(policy, now)) <= MaxAddresses
         /\ Cardinality(Unseen(policy, published, now)) <= Unshown
         /\ \A what : Cardinality(Holding(what)) \in Nat
         /\ Cardinality(Sounds) \in Nat
         /\ MaxPending \in Nat /\ MaxConnections \in Nat /\ MaxAddresses \in Nat
BY GateSetsFinite, AdmissionAssumption, Zenon
   DEF AdmissionInv, DialTypeOK, CountersExact, RoomOK

\* The manager's place after a step of its call.
LEMMA ThenIs ==
  ASSUME NEW step \in {"idle", "settle", "drop", "install", "return"}, Then(step)
  PROVE  manager' \in ManagerState /\ manager'.pc = step
BY Zenon DEF Then, ManagerState

\* A manager that runs `settle`, drops the settled ticket, returns the
\* outcomes, or admits and closes connections leaves the policy alone.
LEMMA SamePolicyInv ==
  ASSUME AdmissionInv,
         SettlePending \/ DropSettled \/ ReturnOutcomes \/ AdmitInbound \/ ConnectionClosed
  PROVE  AdmissionInv'
<1>1. CASE SettlePending
  <2>1. /\ manager' \in ManagerState
        /\ manager.pc = "settle" /\ manager'.pc # "settle" /\ manager'.pc # "return"
        /\ pending' = pending - 1 /\ toReturn' = toReturn + 1
        /\ \/ slots' = slots + 1 /\ manager'.pc = "install"
           \/ slots' = slots /\ manager'.pc = "drop"
        /\ UNCHANGED <<now, policy, published, shuttingDown, connections, outcomes, gate>>
    <3>1. \/ slots' = slots + 1 /\ Then("install")
          \/ slots' = slots /\ Then("drop")
      BY <1>1, Zenon DEF SettlePending
    <3>2. /\ manager.pc = "settle" /\ pending' = pending - 1 /\ toReturn' = toReturn + 1
          /\ UNCHANGED <<now, policy, published, shuttingDown, connections, outcomes, gate>>
      BY <1>1, Zenon DEF SettlePending
    <3> QED BY <3>1, <3>2, ThenIs, Zenon
  <2>2. Unshown' = Unshown
    BY <2>1, ManagerFacts DEF Unshown
  <2> QED BY <2>1, <2>2, ManagerFacts, AsideInv
<1>2. CASE DropSettled
  <2>1. /\ manager' \in ManagerState
        /\ manager.pc = "drop" /\ manager'.pc = "install"
        /\ connections' = connections - 1
        /\ UNCHANGED <<now, policy, published, shuttingDown, pending, outcomes, toReturn,
                       slots, gate>>
    BY <1>2, Zenon DEF DropSettled, Then, ManagerState
  <2>2. Unshown' = Unshown
    BY <2>1, ManagerFacts, Zenon DEF Unshown
  <2> QED BY <2>1, <2>2, ManagerFacts, AsideInv
<1>3. CASE ReturnOutcomes
  <2>1. /\ manager' \in ManagerState
        /\ manager.pc = "return" /\ manager'.pc = "idle"
        /\ outcomes' = outcomes - toReturn /\ toReturn' = 0
        /\ UNCHANGED <<now, policy, published, shuttingDown, pending, connections, slots,
                       gate>>
    BY <1>3, Zenon DEF ReturnOutcomes, Then, ManagerState
  <2>2. Unshown' = Unshown
    BY <2>1, ManagerFacts DEF Unshown
  <2> QED BY <2>1, <2>2, ManagerFacts, AsideInv
<1>4. CASE AdmitInbound \/ ConnectionClosed
  <2>1. /\ manager' \in ManagerState
        /\ manager.pc = "idle" /\ manager'.pc = "install"
        /\ \/ /\ connections < MaxConnections
              /\ connections' = connections + 1 /\ slots' = slots + 1
           \/ slots > 0 /\ connections' = connections - 1 /\ slots' = slots - 1
        /\ UNCHANGED <<now, policy, published, shuttingDown, pending, outcomes, toReturn,
                       gate>>
    <3>1. CASE AdmitInbound
      BY <3>1, Zenon DEF AdmitInbound, Then, ManagerState
    <3>2. CASE ConnectionClosed
      BY <3>2, Zenon DEF ConnectionClosed, Then, ManagerState
    <3> QED BY <1>4, <3>1, <3>2, Zenon
  <2>2. Unshown' = Unshown
    BY <2>1, ManagerFacts, Zenon DEF Unshown
  <2> QED BY <2>1, <2>2, ManagerFacts, AsideInv
<1> QED BY <1>1, <1>2, <1>3, <1>4, Zenon


\* The outcomes not yet shown are a number.
LEMMA UnshownIs ==
  ASSUME AdmissionInv
  PROVE  Unshown \in Nat
BY DEF AdmissionInv, DialTypeOK, Unshown

\* A new policy that quarantines no more than the old one.
LEMMA FewerQuarantines ==
  ASSUME NEW p, NEW q, NEW shown, NEW time,
         LiveQuarantines(q, time) \subseteq LiveQuarantines(p, time),
         Unseen(q, shown, time) \subseteq Unseen(p, shown, time)
  PROVE  /\ Cardinality(LiveQuarantines(q, time)) <= Cardinality(LiveQuarantines(p, time))
         /\ Cardinality(Unseen(q, shown, time)) <= Cardinality(Unseen(p, shown, time))
BY QuarantinesFinite, Smaller, Zenon

\* A new policy that quarantines one address more.
LEMMA OneQuarantineMore ==
  ASSUME NEW p, NEW q, NEW shown, NEW time, NEW key,
         LiveQuarantines(q, time) \subseteq LiveQuarantines(p, time) \cup {key},
         Unseen(q, shown, time) \subseteq Unseen(p, shown, time) \cup {key}
  PROVE  /\ Cardinality(LiveQuarantines(q, time)) <=
                Cardinality(LiveQuarantines(p, time)) + 1
         /\ Cardinality(Unseen(q, shown, time)) <= Cardinality(Unseen(p, shown, time)) + 1
BY QuarantinesFinite, OneMore, Zenon

\* An address that enters the book is no longer counted.
LEMMA Learned ==
  ASSUME NEW p \in PolicyState, NEW shown, NEW time, NEW key \in Keys,
         NEW q, q = [p EXCEPT !.book = @ \cup {key}]
  PROVE  /\ q \in PolicyState
         /\ LiveQuarantines(q, time) \subseteq LiveQuarantines(p, time)
         /\ Unseen(q, shown, time) \subseteq Unseen(p, shown, time)
<1>1. q \in PolicyState /\ q.until = p.until /\ q.book = p.book \cup {key}
  BY Zenon DEF PolicyState
<1> QED BY <1>1, Zenon DEF LiveQuarantines, Unseen, Live

\* An address that leaves the book is counted if it is quarantined.
LEMMA HandedOver ==
  ASSUME NEW p \in PolicyState, NEW shown, NEW time, NEW key \in Keys,
         NEW q, q = [p EXCEPT !.book = @ \ {key}]
  PROVE  /\ q \in PolicyState
         /\ LiveQuarantines(q, time) \subseteq LiveQuarantines(p, time) \cup {key}
         /\ Unseen(q, shown, time) \subseteq Unseen(p, shown, time) \cup {key}
         /\ ~Live(p, key, time) =>
                /\ LiveQuarantines(q, time) \subseteq LiveQuarantines(p, time)
                /\ Unseen(q, shown, time) \subseteq Unseen(p, shown, time)
<1>1. q \in PolicyState /\ q.until = p.until /\ q.book = p.book \ {key}
  BY Zenon DEF PolicyState
<1> QED BY <1>1, Zenon DEF LiveQuarantines, Unseen, Live

\* A dial that succeeds clears its address.
LEMMA Cleared ==
  ASSUME NEW p \in PolicyState, NEW shown, NEW time \in Nat, NEW key \in Keys,
         NEW q, q = [p EXCEPT !.until[key] = 0]
  PROVE  /\ q \in PolicyState
         /\ LiveQuarantines(q, time) \subseteq LiveQuarantines(p, time)
         /\ Unseen(q, shown, time) \subseteq Unseen(p, shown, time)
<1>1. /\ q \in PolicyState /\ q.book = p.book
      /\ q.until[key] = 0 /\ \A k \in Keys \ {key} : q.until[k] = p.until[k]
  BY Zenon DEF PolicyState
<1> QED BY <1>1 DEF LiveQuarantines, Unseen, Live

\* A dial that reaches the wrong peer quarantines its address.
LEMMA Quarantined ==
  ASSUME NEW p \in PolicyState, NEW shown, NEW time \in Nat, NEW key \in Keys,
         NEW q, q = [p EXCEPT !.until[key] = time + Quarantine]
  PROVE  /\ q \in PolicyState
         /\ LiveQuarantines(q, time) \subseteq LiveQuarantines(p, time) \cup {key}
         /\ Unseen(q, shown, time) \subseteq Unseen(p, shown, time) \cup {key}
<1>1. time + Quarantine \in Nat
  BY AdmissionAssumption
<1>2. /\ q \in PolicyState /\ q.book = p.book
      /\ \A k \in Keys \ {key} : q.until[k] = p.until[k]
  BY <1>1, Zenon DEF PolicyState
<1> QED BY <1>2, Zenon DEF LiveQuarantines, Unseen, Live

\* A call that changes the policy without quarantining anything new.
LEMMA MilderInv ==
  ASSUME AdmissionInv, policy' \in PolicyState, shuttingDown' \in BOOLEAN,
         manager.pc = "idle", manager' \in ManagerState, manager'.pc \in {"idle", "install"},
         UNCHANGED <<now, published, pending, connections, outcomes, toReturn, slots, gate>>,
         LiveQuarantines(policy', now) \subseteq LiveQuarantines(policy, now),
         Unseen(policy', published, now) \subseteq Unseen(policy, published, now)
  PROVE  AdmissionInv'
<1>1. Unshown' = Unshown
  BY Zenon DEF Unshown
<1>2. /\ Cardinality(LiveQuarantines(policy', now)) <=
             Cardinality(LiveQuarantines(policy, now))
      /\ Cardinality(Unseen(policy', published, now)) <=
             Cardinality(Unseen(policy, published, now))
  BY FewerQuarantines, Zenon
<1>3. /\ Cardinality(Sounds) + Cardinality(LiveQuarantines(policy', now)) <= MaxAddresses
      /\ Cardinality(Unseen(policy', published, now)) <= Unshown
  BY <1>2, ManagerFacts, QuarantinesFinite, UnshownIs
<1> QED BY <1>1, <1>3, ManagerFacts, AsideInv, Zenon

\* `learn_address`.
LEMMA LearnAddressInv ==
  ASSUME AdmissionInv, NEW key \in Keys, LearnAddress(key)
  PROVE  AdmissionInv'
<1>1. /\ policy' = [policy EXCEPT !.book = @ \cup {key}] /\ manager.pc = "idle"
      /\ UNCHANGED <<now, published, shuttingDown, pending, connections, outcomes,
                     toReturn, slots, manager, gate>>
  BY Zenon DEF LearnAddress, CountersUnchanged
<1>2. /\ policy' \in PolicyState
      /\ LiveQuarantines(policy', now) \subseteq LiveQuarantines(policy, now)
      /\ Unseen(policy', published, now) \subseteq Unseen(policy, published, now)
  BY <1>1, ManagerFacts, Learned, Zenon
<1> QED BY <1>1, <1>2, ManagerFacts, MilderInv, Zenon

\* `set_trust` and `begin_shutdown`.
LEMMA NewRulesInv ==
  ASSUME AdmissionInv, (\E peers \in TrustSets : SetTrust(peers)) \/ BeginShutdown
  PROVE  AdmissionInv'
<1>1. /\ policy' \in PolicyState /\ policy'.until = policy.until /\ policy'.book = policy.book
      /\ shuttingDown' \in BOOLEAN /\ manager.pc = "idle" /\ Then("install")
      /\ UNCHANGED <<now, published, pending, connections, outcomes, toReturn, slots, gate>>
  <2>1. ASSUME NEW peers \in TrustSets, SetTrust(peers)
        PROVE  /\ policy' \in PolicyState /\ policy'.until = policy.until /\ policy'.book = policy.book
               /\ shuttingDown' \in BOOLEAN /\ manager.pc = "idle" /\ Then("install")
               /\ UNCHANGED <<now, published, pending, connections, outcomes, toReturn, slots, gate>>
    BY <2>1, ManagerFacts, AdmissionAssumption, Zenon DEF SetTrust, PolicyState, CountersUnchanged
  <2>2. CASE BeginShutdown
    BY <2>2, ManagerFacts, Zenon DEF BeginShutdown, PolicyState, CountersUnchanged
  <2> QED BY <2>1, <2>2, Zenon
<1>2. /\ LiveQuarantines(policy', now) = LiveQuarantines(policy, now)
      /\ Unseen(policy', published, now) = Unseen(policy, published, now)
  BY <1>1, Zenon DEF LiveQuarantines, Unseen, Live
<1>3. manager' \in ManagerState /\ manager'.pc = "install"
  BY <1>1, ThenIs, Zenon
<1> QED BY <1>1, <1>2, <1>3, MilderInv, Zenon

\* `hand_over`: a quarantine that leaves the book takes an outcome for the
\* time until it is published, like a dial would.
LEMMA HandOverInv ==
  ASSUME AdmissionInv, NEW key \in Keys, HandOver(key)
  PROVE  AdmissionInv'
<1>1. /\ manager.pc = "idle"
      /\ manager' \in ManagerState /\ manager'.pc \in {"idle", "install"}
      /\ UNCHANGED <<now, published, shuttingDown, slots, gate, pending, connections>>
  <2>1. manager.pc = "idle" /\ (Then("install") \/ UNCHANGED manager)
    BY Zenon DEF HandOver
  <2>2. CASE Then("install")
    BY <2>1, <2>2, ThenIs, Zenon DEF HandOver
  <2>3. CASE UNCHANGED manager
    BY <2>1, <2>3, ManagerFacts, Zenon DEF HandOver
  <2> QED BY <2>1, <2>2, <2>3, Zenon
<1>2. CASE /\ ~Live(policy, key, now)
           /\ policy' = [policy EXCEPT !.book = @ \ {key}] /\ UNCHANGED <<outcomes, toReturn>>
  <2>1. policy' = [policy EXCEPT !.book = @ \ {key}] /\ UNCHANGED <<outcomes, toReturn>>
    BY <1>2, Zenon
  <2>2. /\ policy' \in PolicyState
        /\ LiveQuarantines(policy', now) \subseteq LiveQuarantines(policy, now)
        /\ Unseen(policy', published, now) \subseteq Unseen(policy, published, now)
    BY <1>2, <2>1, ManagerFacts, HandedOver
  <2> QED BY <1>1, <2>1, <2>2, ManagerFacts, MilderInv, Zenon
<1>3. CASE UNCHANGED <<policy, outcomes, toReturn>>
  BY <1>1, <1>3, ManagerFacts, MilderInv, Zenon
<1>4. CASE /\ Live(policy, key, now) /\ outcomes < OutcomeRoom(policy, now)
           /\ policy' = [policy EXCEPT !.book = @ \ {key}]
           /\ outcomes' = outcomes + 1 /\ toReturn' = toReturn + 1
           /\ Then("install")
  <2>1. /\ policy' = [policy EXCEPT !.book = @ \ {key}]
        /\ outcomes' = outcomes + 1 /\ toReturn' = toReturn + 1
        /\ manager'.pc = "install"
    BY <1>4, ThenIs, Zenon
  <2>2. /\ policy' \in PolicyState
        /\ LiveQuarantines(policy', now) \subseteq LiveQuarantines(policy, now) \cup {key}
        /\ Unseen(policy', published, now) \subseteq Unseen(policy, published, now) \cup {key}
    <3>1. policy \in PolicyState
      BY ManagerFacts, Zenon
    <3>2. policy' = [policy EXCEPT !.book = @ \ {key}]
      BY <2>1, Zenon
    <3> QED BY <3>1, <3>2, HandedOver
  <2>3. /\ Cardinality(LiveQuarantines(policy', now)) <=
               Cardinality(LiveQuarantines(policy, now)) + 1
        /\ Cardinality(Unseen(policy', published, now)) <=
               Cardinality(Unseen(policy, published, now)) + 1
    BY <2>2, OneQuarantineMore, Zenon
  <2>4. /\ Cardinality(LiveQuarantines(policy', now)) \in Nat
        /\ Cardinality(LiveQuarantines(policy, now)) \in Nat
        /\ Cardinality(Unseen(policy', published, now)) \in Nat
        /\ Cardinality(Unseen(policy, published, now)) \in Nat
    BY QuarantinesFinite, Zenon
  <2>5. Cardinality(Unseen(policy', published, now)) <= Unshown'
    BY <1>1, <2>1, <2>3, <2>4, ManagerFacts DEF Unshown
  <2>6. Cardinality(Sounds) <= Cardinality(Holding("outcome"))
    BY SoundsHold, Zenon
  <2>7. Cardinality(Sounds) + Cardinality(LiveQuarantines(policy', now)) <= MaxAddresses
    BY <1>1, <1>4, <2>3, <2>4, <2>6, ManagerFacts DEF OutcomeRoom
  <2> QED BY <1>1, <2>1, <2>2, <2>5, <2>7, ManagerFacts, AsideInv
<1> QED BY <1>2, <1>3, <1>4, Zenon DEF HandOver

\* A ticket is settled: its reservations pass to the manager's call, and its
\* room pays for the one address the outcome may quarantine.
LEMMA SettleInv ==
  ASSUME AdmissionInv, NEW g \in Gates, NEW changed \in PolicyState, NEW keeps \in BOOLEAN,
         Settle(g, changed, keeps), NEW key,
         LiveQuarantines(changed, now) \subseteq LiveQuarantines(policy, now) \cup {key},
         Unseen(changed, published, now) \subseteq Unseen(policy, published, now) \cup {key}
  PROVE  AdmissionInv'
<1>1. /\ manager.pc = "idle" /\ gate[g].pc = "granted" /\ policy' = changed
      /\ gate' = [gate EXCEPT ![g] = Resting]
      /\ manager' = [pc |-> "settle", keeps |-> keeps]
      /\ UNCHANGED <<now, published, shuttingDown, toReturn, slots,
                     pending, connections, outcomes>>
  BY Zenon DEF Settle, CountersUnchanged
<1>2. manager' \in ManagerState /\ manager'.pc = "settle"
  BY <1>1, Zenon DEF ManagerState
<1>3. gate[g].held = Counters /\ Sound(gate[g])
  BY <1>1, GateFacts, Zenon DEF HeldOK, Sound
<1>4. /\ Resting \in GateState /\ HeldOK(Resting) /\ KnowsOK(Resting, published, now)
      /\ Resting.held = {} /\ ~Sound(Resting)
  BY RestingIs, ManagerFacts, Zenon
<1>5. gate \in [Gates -> GateState]
  BY Zenon DEF AdmissionInv, DialTypeOK
<1>6. /\ gate'[g] = Resting /\ \A h \in Gates \ {g} : gate'[h] = gate[h]
      /\ gate' \in [Gates -> GateState]
  BY <1>1, <1>4, <1>5, Zenon
<1>7. DialTypeOK'
  BY <1>1, <1>2, <1>6, Zenon DEF AdmissionInv, DialTypeOK
<1>8. GatesOK'
  BY <1>1, <1>4, <1>6, Zenon DEF AdmissionInv, GatesOK
<1>9. \A what \in Counters : Cardinality(Holding(what)') = Cardinality(Holding(what)) - 1
  <2> TAKE what \in Counters
  <2>1. Bit(Resting, what) = 0 /\ Bit(gate[g], what) = 1
    BY <1>3, <1>4, Zenon DEF Bit
  <2>2. Cardinality(Holding(what)') =
            Cardinality(Holding(what)) + Bit(Resting, what) - Bit(gate[g], what)
    BY <1>1, <1>5, HoldingMoves, Zenon
  <2> QED BY <2>1, <2>2, GateSetsFinite
<1>10. CountersExact'
  <2>1. /\ Cardinality(Holding("pending")') = Cardinality(Holding("pending")) - 1
        /\ Cardinality(Holding("connection")') = Cardinality(Holding("connection")) - 1
        /\ Cardinality(Holding("outcome")') = Cardinality(Holding("outcome")) - 1
    BY <1>9, Zenon DEF Counters
  <2> QED BY <1>1, <1>2, <2>1, ManagerFacts DEF CountersExact
<1>11. Cardinality(Sounds') = Cardinality(Sounds) - 1
  <2>1. Sounds \ {g} = Sounds' \ {g} /\ g \notin Sounds' /\ g \in Sounds
    BY <1>3, <1>4, <1>6, Zenon DEF Sounds
  <2> QED BY <2>1, GateSetsFinite, OneApart, Zenon
<1>12. /\ Cardinality(LiveQuarantines(policy', now)) <=
              Cardinality(LiveQuarantines(policy, now)) + 1
       /\ Cardinality(Unseen(policy', published, now)) <=
              Cardinality(Unseen(policy, published, now)) + 1
  BY <1>1, OneQuarantineMore, Zenon
<1>13. /\ Cardinality(LiveQuarantines(policy', now)) \in Nat
       /\ Cardinality(LiveQuarantines(policy, now)) \in Nat
       /\ Cardinality(Unseen(policy', published, now)) \in Nat
       /\ Cardinality(Unseen(policy, published, now)) \in Nat
  BY QuarantinesFinite, Zenon
<1>14. Unshown' = Unshown + 1
  BY <1>1, <1>2, ManagerFacts DEF Unshown
<1>15. /\ LiveQuarantines(policy, now)' = LiveQuarantines(policy', now)
       /\ Unseen(policy, published, now)' = Unseen(policy', published, now)
  BY <1>1, Zenon DEF LiveQuarantines, Unseen, Live
<1>16. RoomOK'
  BY <1>11, <1>12, <1>13, <1>14, <1>15, ManagerFacts, UnshownIs DEF RoomOK
<1> QED BY <1>7, <1>8, <1>10, <1>16, Zenon DEF AdmissionInv

\* `record_success`, `record_failure` and `record_identity_mismatch`.
LEMMA RecordInv ==
  ASSUME AdmissionInv, NEW g \in Gates,
         RecordSuccess(g) \/ RecordFailure(g) \/ RecordIdentityMismatch(g)
  PROVE  AdmissionInv'
<1>1. gate[g].pc = "granted"
  BY Zenon DEF RecordSuccess, RecordFailure, RecordIdentityMismatch, Settle
<1>2. policy \in PolicyState /\ now \in Nat
  BY ManagerFacts, Zenon
<1>3. gate[g].key \in Keys
  BY <1>1, GateFacts, Zenon DEF KnowsOK
<1> DEFINE key == gate[g].key
           good == [policy EXCEPT !.until[key] = 0]
           bad == [policy EXCEPT !.until[key] = now + Quarantine]
<1>4. /\ good \in PolicyState
      /\ LiveQuarantines(good, now) \subseteq LiveQuarantines(policy, now)
      /\ Unseen(good, published, now) \subseteq Unseen(policy, published, now)
  BY <1>2, <1>3, Cleared, Zenon
<1>5. /\ bad \in PolicyState
      /\ LiveQuarantines(bad, now) \subseteq LiveQuarantines(policy, now) \cup {key}
      /\ Unseen(bad, published, now) \subseteq Unseen(policy, published, now) \cup {key}
  BY <1>2, <1>3, Quarantined
<1>6. \/ Settle(g, good, TRUE) \/ Settle(g, policy, FALSE) \/ Settle(g, bad, FALSE)
  BY Zenon DEF RecordSuccess, RecordFailure, RecordIdentityMismatch
<1> HIDE DEF good, bad
<1> QED BY <1>2, <1>4, <1>5, <1>6, SettleInv, Zenon

\* The first half of `publish`: nothing is unseen any more, and no gate that
\* is not granted yet counts on the snapshot that went.
LEMMA InstallInv ==
  ASSUME AdmissionInv, Install
  PROVE  AdmissionInv'
<1>1. /\ manager.pc = "install" /\ published' = policy
      /\ gate' = [g \in Gates |-> [gate[g] EXCEPT !.fresh = FALSE]]
      /\ Then("return")
      /\ UNCHANGED <<now, policy, shuttingDown, toReturn, slots,
                     pending, connections, outcomes>>
  BY Zenon DEF Install, CountersUnchanged
<1>2. manager' \in ManagerState /\ manager'.pc = "return"
  BY <1>1, ThenIs, Zenon
<1>3. ASSUME NEW g \in Gates
      PROVE  /\ gate'[g] \in GateState /\ HeldOK(gate'[g]) /\ KnowsOK(gate'[g], policy, now)
             /\ gate'[g].held = gate[g].held /\ (Sound(gate'[g]) => Sound(gate[g]))
  <2> DEFINE me == gate[g]
             new == [me EXCEPT !.fresh = FALSE]
  <2>1. me \in GateState /\ HeldOK(me) /\ KnowsOK(me, published, now)
    BY GateFacts, Zenon
  <2>2. gate'[g] = new
    BY <1>1, Zenon
  <2> HIDE DEF me
  <2>3. new \in GateState /\ new.held = me.held /\ (Sound(new) => Sound(me))
    BY <2>1, Zenon DEF GateState, Sound
  <2>4. HeldOK(new) /\ KnowsOK(new, policy, now)
    BY <2>1, Zenon DEF GateState, HeldOK, KnowsOK
  <2> HIDE DEF new
  <2> QED BY <2>2, <2>3, <2>4, Zenon DEF me
<1>4. DialTypeOK' /\ GatesOK'
  <2>1. gate' \in [Gates -> GateState]
    BY <1>1, <1>3, Zenon
  <2> QED BY <1>1, <1>2, <1>3, <2>1, Zenon DEF AdmissionInv, DialTypeOK, GatesOK
<1>5. \A what : Holding(what)' = Holding(what)
  BY <1>3, Zenon DEF Holding
<1>6. CountersExact'
  BY <1>1, <1>2, <1>5, ManagerFacts, Zenon DEF CountersExact
<1>7. Cardinality(Sounds') <= Cardinality(Sounds) /\ Cardinality(Sounds') \in Nat
  <2>1. Sounds' \subseteq Sounds
    BY <1>3, Zenon DEF Sounds
  <2> QED BY <2>1, GateSetsFinite, Smaller, Zenon
<1>8. /\ LiveQuarantines(policy, now)' = LiveQuarantines(policy, now)
      /\ Unseen(policy, published, now)' = {}
  BY <1>1, ManagerFacts DEF LiveQuarantines, Unseen, Live, PolicyState
<1>9. Cardinality(Unseen(policy, published, now)') <= Unshown'
  BY <1>2, <1>8, FS_EmptySet DEF Unshown
<1>10. RoomOK'
  BY <1>7, <1>8, <1>9, ManagerFacts, QuarantinesFinite DEF RoomOK
<1> QED BY <1>4, <1>6, <1>10, Zenon DEF AdmissionInv

\* Time only lets quarantines run out.
LEMMA TickInv ==
  ASSUME AdmissionInv, Tick
  PROVE  AdmissionInv'
<1>1. /\ now' = now + 1 /\ now \in Nat
      /\ UNCHANGED <<policy, published, shuttingDown, pending, connections, outcomes,
                     toReturn, slots, manager, gate>>
  BY ManagerFacts, Zenon DEF Tick, CountersUnchanged, ManagerUnchanged
<1>2. DialTypeOK'
  BY <1>1 DEF AdmissionInv, DialTypeOK
<1>3. GatesOK'
  BY <1>1 DEF AdmissionInv, DialTypeOK, GatesOK, GateState, HeldOK, KnowsOK
<1>4. (\A what : Holding(what)' = Holding(what)) /\ Sounds' = Sounds /\ Unshown' = Unshown
  BY <1>1, Zenon DEF Holding, Sounds, Unshown
<1>5. CountersExact'
  BY <1>1, <1>4, ManagerFacts, Zenon DEF CountersExact
<1>6. /\ LiveQuarantines(policy, now)' \subseteq LiveQuarantines(policy, now)
      /\ Unseen(policy, published, now)' \subseteq Unseen(policy, published, now)
  BY <1>1, ManagerFacts DEF LiveQuarantines, Unseen, Live, PolicyState
<1>7. /\ Cardinality(LiveQuarantines(policy, now)') <= Cardinality(LiveQuarantines(policy, now))
      /\ Cardinality(Unseen(policy, published, now)') <=
             Cardinality(Unseen(policy, published, now))
      /\ Cardinality(LiveQuarantines(policy, now)') \in Nat
      /\ Cardinality(Unseen(policy, published, now)') \in Nat
  BY <1>6, QuarantinesFinite, Smaller, Zenon
<1>8. RoomOK'
  BY <1>4, <1>7, ManagerFacts, QuarantinesFinite, UnshownIs DEF RoomOK
<1> QED BY <1>2, <1>3, <1>5, <1>8, Zenon DEF AdmissionInv


-----------------------------------------------------------------------------
(* The theorems. *)

\* The funnel starts with nothing reserved and nothing quarantined.
LEMMA AdmissionInitInv == AdmissionInit => AdmissionInv
<1> SUFFICES ASSUME AdmissionInit PROVE AdmissionInv
  BY Zenon
<1>1. /\ NewPolicy \in PolicyState
      /\ Resting \in GateState /\ HeldOK(Resting) /\ KnowsOK(Resting, published, 0)
      /\ Resting.held = {} /\ ~Sound(Resting)
  BY RestingIs, Zenon
<1>2. /\ now = 0 /\ policy = NewPolicy /\ published = NewPolicy /\ shuttingDown = FALSE
      /\ pending = 0 /\ connections = 0 /\ outcomes = 0 /\ toReturn = 0 /\ slots = 0
      /\ manager = [pc |-> "idle", keeps |-> FALSE] /\ \A g \in Gates : gate[g] = Resting
      /\ gate \in [Gates -> {Resting}]
  BY Zenon DEF AdmissionInit
<1>3. manager \in ManagerState /\ manager.pc = "idle"
  BY <1>2, Zenon DEF ManagerState
<1>4. DialTypeOK
  BY <1>1, <1>2, <1>3, Zenon DEF DialTypeOK
<1>5. GatesOK
  BY <1>1, <1>2, Zenon DEF GatesOK
<1>6. (\A what : Holding(what) = {}) /\ Sounds = {}
  BY <1>1, <1>2, Zenon DEF Holding, Sounds
<1>7. CountersExact
  <2>1. \A what : Cardinality(Holding(what)) = 0
    BY <1>6, FS_EmptySet, Zenon
  <2> QED BY <1>2, <1>3, <2>1, AdmissionAssumption DEF CountersExact
<1>8. LiveQuarantines(policy, now) = {} /\ Unseen(policy, published, now) = {}
  BY <1>2 DEF LiveQuarantines, Unseen, Live, NewPolicy
<1>9. RoomOK
  <2>1. /\ Cardinality(Sounds) = 0 /\ Cardinality(LiveQuarantines(policy, now)) = 0
        /\ Cardinality(Unseen(policy, published, now)) = 0
    BY <1>6, <1>8, FS_EmptySet, Zenon
  <2>2. Unshown = 0
    BY <1>2, <1>3 DEF Unshown
  <2> QED BY <2>1, <2>2, AdmissionAssumption DEF RoomOK
<1> QED BY <1>4, <1>5, <1>7, <1>9, Zenon DEF AdmissionInv

\* Every step keeps the invariant.
LEMMA AdmissionNextInv == AdmissionInv /\ [AdmissionNext]_admissionVars => AdmissionInv'
<1> SUFFICES ASSUME AdmissionInv, [AdmissionNext]_admissionVars PROVE AdmissionInv'
  BY Zenon
<1>1. ASSUME NEW g \in Gates, (\E key \in Keys : Ask(g, key)) \/ GateStep(g) \/ Abandon(g)
      PROVE  AdmissionInv'
  BY <1>1, GateStepInv, Zenon
<1>2. CASE Publishing
  BY <1>2, SamePolicyInv, InstallInv, Zenon DEF Publishing
<1>3. CASE ManagerCall
  <2>1. ASSUME NEW g \in Gates, RecordSuccess(g) \/ RecordFailure(g) \/ RecordIdentityMismatch(g)
        PROVE  AdmissionInv'
    BY <2>1, RecordInv, Zenon
  <2>2. ASSUME NEW key \in Keys, LearnAddress(key) \/ HandOver(key) PROVE AdmissionInv'
    BY <2>2, LearnAddressInv, HandOverInv, Zenon
  <2>3. CASE (\E peers \in TrustSets : SetTrust(peers)) \/ BeginShutdown
    BY <2>3, NewRulesInv, Zenon
  <2>4. CASE AdmitInbound \/ ConnectionClosed
    BY <2>4, SamePolicyInv, Zenon
  <2> QED BY <1>3, <2>1, <2>2, <2>3, <2>4, Zenon DEF ManagerCall
<1>4. CASE Tick
  BY <1>4, TickInv, Zenon
<1>5. CASE UNCHANGED admissionVars
  <2>1. UNCHANGED <<now, policy, published, shuttingDown, pending, connections,
                    outcomes, toReturn, slots, manager, gate>>
    BY <1>5, Zenon DEF admissionVars
  <2>2. Unshown' = Unshown
    BY <2>1, Zenon DEF Unshown
  <2> QED BY <2>1, <2>2, ManagerFacts, AsideInv, Zenon
<1> QED BY <1>1, <1>2, <1>3, <1>4, <1>5, Zenon DEF AdmissionNext

\* The invariant holds throughout, for any number of gates and any limits.
THEOREM AdmissionInvariant == AdmissionSpec => []AdmissionInv
BY AdmissionInitInv, AdmissionNextInv, PTL DEF AdmissionSpec

\* The three shared counters equal what tickets, slots and the manager's
\* call hold, and the limits on dials and connections are kept, whatever
\* interleaving of `reserve`, `Drop for DialTicket` and `settle` led here.
THEOREM CountersAreExact == AdmissionSpec => []CountersExact
<1>1. AdmissionInv => CountersExact
  BY Zenon DEF AdmissionInv
<1> QED BY <1>1, AdmissionInvariant, PTL

\* Every dial that is out can have its address quarantined, so
\* `record_identity_mismatch` never forgets one for want of room.
THEOREM MismatchesAreRecorded == AdmissionSpec => []MismatchAlwaysRecorded
<1>1. AdmissionInv => MismatchAlwaysRecorded
  <2> SUFFICES ASSUME AdmissionInv, NEW g \in Granted
               PROVE  CanQuarantine(policy, gate[g].key, now)
    BY Zenon DEF MismatchAlwaysRecorded
  <2>1. g \in Sounds
    BY Zenon DEF Granted, Sounds, Sound
  <2>2. Cardinality(Sounds) # 0
    BY <2>1, GateSetsFinite, FS_EmptySet, Zenon
  <2>3. Cardinality(LiveQuarantines(policy, now)) < MaxAddresses
    BY <2>2, ManagerFacts, QuarantinesFinite
  <2> QED BY <2>3, Zenon DEF CanQuarantine
<1> QED BY <1>1, AdmissionInvariant, PTL

\* A step after which no gate has a ticket that had none before.
GrantsNothing == \A g \in Gates : gate'[g].pc = "granted" => gate[g].pc = "granted"

\* A gate that is refused, goes on or drops its ticket does not get one.
LEMMA OtherStepsGrantNothing ==
  ASSUME AdmissionInv, NEW g \in Gates,
         \/ \E again : Over(g, again) \/ Refuse(g, again)
         \/ \E step \in Steps \ {"granted"} : Goto(g, step)
         \/ \E what : Released(g, what)
         \/ \E what, next : /\ next # "granted"
                            /\ gate' = [gate EXCEPT ![g].held = @ \cup {what}, ![g].pc = next]
         \/ \E key : Ask(g, key)
         \/ Load(g)
         \/ \E changed, keeps : Settle(g, changed, keeps)
  PROVE  GrantsNothing
<1>1. gate \in [Gates -> GateState] /\ gate[g] \in GateState
  BY Zenon DEF AdmissionInv, DialTypeOK
<1>2. ASSUME NEW new, gate' = [gate EXCEPT ![g] = new],
             new.pc # "granted" \/ new.pc = gate[g].pc
      PROVE  GrantsNothing
  BY <1>1, <1>2, Zenon DEF GrantsNothing
<1>3. ASSUME NEW again, Over(g, again) PROVE GrantsNothing
  <2> DEFINE more == [gate[g] EXCEPT !.pc = "load", !.held = {}, !.snap = NewPolicy,
                                     !.fresh = FALSE]
  <2>1. more.pc # "granted" /\ Resting.pc # "granted"
    BY <1>1, Zenon DEF GateState, Resting
  <2>2. gate' = [gate EXCEPT ![g] = more] \/ gate' = [gate EXCEPT ![g] = Resting]
    BY <1>3, Zenon DEF Over
  <2> HIDE DEF more
  <2> QED BY <1>2, <2>1, <2>2, Zenon
<1>4. ASSUME NEW again, Refuse(g, again) PROVE GrantsNothing
  <2>1. CASE gate[g].held = {}
    BY <1>3, <1>4, <2>1, Zenon DEF Refuse
  <2>2. CASE gate[g].held # {}
    <3> DEFINE new == [gate[g] EXCEPT !.pc = "drop", !.again = again, !.snap = NewPolicy,
                                      !.fresh = FALSE]
    <3>1. gate' = [gate EXCEPT ![g] = new]
      BY <1>1, <1>4, <2>2, Zenon DEF Refuse
    <3>2. new.pc # "granted"
      BY <1>1, Zenon DEF GateState
    <3> HIDE DEF new
    <3> QED BY <1>2, <3>1, <3>2, Zenon
  <2> QED BY <2>1, <2>2, Zenon
<1>5. ASSUME NEW step \in Steps \ {"granted"}, Goto(g, step) PROVE GrantsNothing
  BY <1>1, <1>5, Zenon DEF Goto, GrantsNothing, GateState
<1>6. ASSUME NEW what, Released(g, what) PROVE GrantsNothing
  <2>1. CASE gate[g].held = {what}
    BY <1>3, <1>6, <2>1, Zenon DEF Released
  <2>2. CASE gate[g].held # {what}
    BY <1>1, <1>6, <2>2 DEF Released, GrantsNothing, GateState
  <2> QED BY <2>1, <2>2, Zenon
<1>7. ASSUME NEW what, NEW next, next # "granted",
             gate' = [gate EXCEPT ![g].held = @ \cup {what}, ![g].pc = next]
      PROVE  GrantsNothing
  BY <1>1, <1>7, Zenon DEF GrantsNothing, GateState
<1>8. ASSUME NEW key, Ask(g, key) PROVE GrantsNothing
  BY <1>1, <1>8, Zenon DEF Ask, Resting, GrantsNothing
<1>9. CASE Load(g)
  BY <1>1, <1>9, Zenon DEF Load, GrantsNothing, GateState
<1>10. ASSUME NEW changed, NEW keeps, Settle(g, changed, keeps) PROVE GrantsNothing
  BY <1>1, <1>10, Zenon DEF Settle, Resting, GrantsNothing
<1> QED BY <1>3, <1>4, <1>5, <1>6, <1>7, <1>8, <1>9, <1>10, Zenon

\* The only step that hands out a ticket is the second `is_current` of a
\* gate whose snapshot is the published one.
LEMMA GrantIsCurrent ==
  ASSUME AdmissionInv, [AdmissionNext]_admissionVars
  PROVE  GrantStep
<1>1. GrantsNothing => GrantStep
  BY Zenon DEF GrantsNothing, GrantStep
<1>2. gate \in [Gates -> GateState]
  BY Zenon DEF AdmissionInv, DialTypeOK
<1>3. ASSUME NEW g \in Gates, Grant(g) PROVE GrantStep
  <2>1. CASE ~gate[g].fresh
    BY <1>1, <1>3, <2>1, OtherStepsGrantNothing, Zenon DEF Grant, Supersede
  <2>2. CASE gate[g].fresh
    <3>1. PolicyAdmits(published, gate[g].key, gate[g].at)
      BY <1>3, <2>2, GateFacts, Zenon DEF Grant, KnowsOK
    <3>2. \A h \in Gates \ {g} : gate'[h] = gate[h]
      BY <1>2, <1>3, <2>2, Zenon DEF Grant, HandOut
    <3> QED BY <3>1, <3>2, Zenon DEF GrantStep
  <2> QED BY <2>1, <2>2, Zenon
<1>4. ASSUME NEW g \in Gates, (\E key \in Keys : Ask(g, key)) \/ GateStep(g) \/ Abandon(g),
             ~Grant(g)
      PROVE  GrantStep
  <2>1. CASE (\E key \in Keys : Ask(g, key)) \/ Load(g)
    BY <1>1, <2>1, OtherStepsGrantNothing, Zenon
  <2>2. CASE ReadFlag(g) \/ RereadFlag(g)
    BY <1>1, <2>2, OtherStepsGrantNothing, Zenon
       DEF ReadFlag, RereadFlag, Deny, Supersede, Steps
  <2>3. CASE ReadCurrent(g)
    BY <1>1, <2>3, OtherStepsGrantNothing, Zenon DEF ReadCurrent, Deny, Supersede, Steps
  <2>4. CASE ReservePending(g)
    BY <1>1, <2>4, OtherStepsGrantNothing, Zenon DEF ReservePending, Reserve, Deny
  <2>5. CASE ReserveConnection(g)
    BY <1>1, <2>5, OtherStepsGrantNothing, Zenon DEF ReserveConnection, Reserve, Deny
  <2>6. CASE ReserveOutcome(g)
    BY <1>1, <2>6, OtherStepsGrantNothing, Zenon DEF ReserveOutcome, Reserve, Deny
  <2>7. CASE DropTicket(g)
    BY <1>1, <2>7, OtherStepsGrantNothing, Zenon DEF DropTicket
  <2>8. CASE Abandon(g)
    BY <1>1, <2>8, OtherStepsGrantNothing, Zenon DEF Abandon, Steps
  <2> QED BY <1>4, <2>1, <2>2, <2>3, <2>4, <2>5, <2>6, <2>7, <2>8, Zenon DEF GateStep
<1>5. CASE gate' = gate
  BY <1>1, <1>5, Zenon DEF GrantsNothing
<1>6. CASE Install
  BY <1>1, <1>2, <1>6, Zenon DEF Install, GrantsNothing, GateState
<1>7. ASSUME NEW g \in Gates, RecordSuccess(g) \/ RecordFailure(g) \/ RecordIdentityMismatch(g)
      PROVE  GrantStep
  <2>1. \E changed, keeps : Settle(g, changed, keeps)
    BY <1>7, Zenon DEF RecordSuccess, RecordFailure, RecordIdentityMismatch
  <2> QED BY <1>1, <2>1, OtherStepsGrantNothing, Zenon
<1>8. CASE SettlePending \/ DropSettled \/ ReturnOutcomes
  BY <1>5, <1>8, Zenon DEF SettlePending, DropSettled, ReturnOutcomes
<1>9. CASE (\E key \in Keys : LearnAddress(key) \/ HandOver(key))
            \/ (\E peers \in TrustSets : SetTrust(peers))
            \/ BeginShutdown \/ AdmitInbound \/ ConnectionClosed \/ Tick
  BY <1>5, <1>9, Zenon DEF LearnAddress, HandOver, SetTrust, BeginShutdown, AdmitInbound,
                    ConnectionClosed, Tick
<1>10. CASE UNCHANGED admissionVars
  BY <1>5, <1>10, Zenon DEF admissionVars
<1> QED BY <1>3, <1>4, <1>6, <1>7, <1>8, <1>9, <1>10, Zenon
        DEF AdmissionNext, Publishing, ManagerCall

\* No step grants what the snapshot published at that step refuses: not a
\* revoked peer, not a quarantined address, not after a shutdown was
\* published (`SnapshotHandle::admit`).
THEOREM GrantsFollowThePolicy == AdmissionSpec => GrantsAreCurrent
<1>1. AdmissionInv /\ [AdmissionNext]_admissionVars => [GrantStep]_admissionVars
  BY GrantIsCurrent, Zenon
<1> QED BY <1>1, AdmissionInvariant, PTL DEF AdmissionSpec, GrantsAreCurrent


=============================================================================
