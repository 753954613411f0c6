--------------------------- MODULE DialAdmission ----------------------------
(***************************************************************************)
(* How dials are admitted while the policy changes under them:             *)
(* `SnapshotHandle::admit`, `PolicySnapshot::admit`, `reserve`,            *)
(* `DialTicket` and the publishing half of `ConnectionManager`             *)
(* (crates/transport/runtime/src/connection_manager.rs).                   *)
(*                                                                         *)
(* Gates run on any thread against the snapshot they loaded and share      *)
(* three atomic counters with the manager, which alone changes the policy  *)
(* and publishes it. One action is one atomic access of shared memory.     *)
(*                                                                         *)
(* A policy is reduced to what admission and settlement tell apart: who is *)
(* authorized, which address is quarantined until when, and which          *)
(* addresses belong to the book. Entries that are not quarantined never    *)
(* stand in the way, since `make_room_for_address` evicts them. Backoff is *)
(* a denial that may or may not come. A superseded snapshot never becomes  *)
(* current again, so its revision is a flag: fresh or not.                 *)
(***************************************************************************)
EXTENDS Naturals, FiniteSets

CONSTANTS
    Gates,           \* concurrent callers of `SnapshotHandle::admit`
    Peers,           \* remote peers
    Addresses,       \* dial addresses of a peer
    MaxPending,      \* `max_pending_dials`
    MaxConnections,  \* `max_connections`
    MaxAddresses,    \* `max_addresses`: entries kept outside the book
    Attempts,        \* ADMIT_RELOAD_ATTEMPTS
    Quarantine,      \* IDENTITY_MISMATCH_QUARANTINE_MS
    TrustSets,       \* the sets of authorized peers an operator may load
    NoKey,           \* the key of a gate at rest
    MaxTime          \* bound on the clock

ASSUME AdmissionAssumption ==
    /\ IsFiniteSet(Gates) /\ IsFiniteSet(Peers) /\ IsFiniteSet(Addresses)
    /\ TrustSets \subseteq SUBSET Peers
    /\ MaxPending \in Nat /\ MaxConnections \in Nat /\ MaxAddresses \in Nat
    /\ Attempts \in Nat \ {0}
    /\ Quarantine \in Nat
    /\ MaxTime \in Nat

\* `AddressKey`.
Keys == [peer : Peers, address : Addresses]

NewPolicy == [authorized |-> {}, until |-> [k \in Keys |-> 0], book |-> {}, open |-> TRUE]

VARIABLES
    now,          \* the clock, read anew by every call
    policy,       \* the manager's own policy
    published,    \* the snapshot behind the handle
    shuttingDown, \* the shared flag
    pending,      \* shared counter: dials in flight
    connections,  \* shared counter: connection slots
    outcomes,     \* shared counter: answers that may need an address entry
    toReturn,     \* `outcomes_to_return`
    slots,        \* live `ConnectionSlot`s
    manager,      \* what is left of the manager's current call
    gate          \* each gate's progress through `admit`

admissionVars == <<now, policy, published, shuttingDown, pending, connections,
                   outcomes, toReturn, slots, manager, gate>>

Counters == {"pending", "connection", "outcome"}

\* `again` tells PolicySuperseded, which is tried again, from a denial that
\* is final; `held` is what the ticket would give back.
Resting == [pc |-> "idle", key |-> NoKey, at |-> 0, snap |-> NewPolicy,
            fresh |-> FALSE, again |-> FALSE, tries |-> 0, held |-> {}]

-----------------------------------------------------------------------------
(* The policy, as far as admission reads it. *)

Live(p, key, at) == at < p.until[key]

\* `live_quarantines`: quarantined addresses outside the book.
LiveQuarantines(p, at) == {key \in Keys \ p.book : Live(p, key, at)}

\* `ConnectionPolicy::admit` finds nothing against the dial; the last test
\* is PolicyStateFull.
PolicyAdmits(p, key, at) ==
    /\ p.open
    /\ key.peer \in p.authorized
    /\ ~Live(p, key, at)
    /\ key \in p.book \/ Cardinality(LiveQuarantines(p, at)) < MaxAddresses

\* `record_identity_mismatch` finds room for its entry.
CanQuarantine(p, key, at) ==
    \/ key \in p.book
    \/ Live(p, key, at)
    \/ Cardinality(LiveQuarantines(p, at)) < MaxAddresses

\* How many outcomes may be outstanding beside the quarantines of `p`.
OutcomeRoom(p, at) ==
    LET live == Cardinality(LiveQuarantines(p, at))
    IN  IF live < MaxAddresses THEN MaxAddresses - live ELSE 0

-----------------------------------------------------------------------------
(* A gate: `SnapshotHandle::admit` and `PolicySnapshot::admit`. *)

Goto(g, step) == gate' = [gate EXCEPT ![g].pc = step]

\* An attempt is over once its ticket, if it got one, has been dropped: a
\* superseded one is tried again while it may be, any other has its answer.
Over(g, again) ==
    gate' = [gate EXCEPT ![g] = IF again /\ gate[g].tries < Attempts
                                THEN [gate[g] EXCEPT !.pc = "load", !.held = {},
                                                     !.snap = NewPolicy, !.fresh = FALSE]
                                ELSE Resting]

Refuse(g, again) ==
    IF gate[g].held = {} THEN Over(g, again)
    ELSE gate' = [gate EXCEPT ![g].pc = "drop", ![g].again = again,
                              ![g].snap = NewPolicy, ![g].fresh = FALSE]

Deny(g) == Refuse(g, FALSE)
Supersede(g) == Refuse(g, TRUE)

CountersUnchanged == UNCHANGED <<pending, connections, outcomes>>
ManagerUnchanged == UNCHANGED <<policy, published, shuttingDown, toReturn, slots, manager>>

\* A caller asks for a dial and the clock is read once.
Ask(g, key) ==
    /\ gate[g].pc = "idle"
    /\ gate' = [gate EXCEPT ![g] = [Resting EXCEPT !.pc = "load", !.key = key, !.at = now]]
    /\ UNCHANGED now /\ CountersUnchanged /\ ManagerUnchanged

\* `SnapshotHandle::load`.
Load(g) ==
    /\ gate[g].pc = "load"
    /\ gate' = [gate EXCEPT ![g].snap = published, ![g].fresh = TRUE,
                            ![g].again = FALSE, ![g].tries = @ + 1, ![g].pc = "flag"]
    /\ UNCHANGED now /\ CountersUnchanged /\ ManagerUnchanged

ReadFlag(g) ==
    /\ gate[g].pc = "flag"
    /\ IF shuttingDown THEN Deny(g) ELSE Goto(g, "current")
    /\ UNCHANGED now /\ CountersUnchanged /\ ManagerUnchanged

\* The first `is_current`, and then the snapshot's own verdict.
ReadCurrent(g) ==
    /\ gate[g].pc = "current"
    /\ \/ ~gate[g].fresh /\ Supersede(g)
       \/ gate[g].fresh /\ Deny(g)
       \/ /\ gate[g].fresh
          /\ PolicyAdmits(gate[g].snap, gate[g].key, gate[g].at)
          /\ Goto(g, "pending")
    /\ UNCHANGED now /\ CountersUnchanged /\ ManagerUnchanged

\* `reserve`: take one unless the ceiling is reached. A refusal drops what
\* the ticket already holds.
Reserve(g, counter, what, ceiling, next) ==
    IF counter >= ceiling
    THEN Deny(g) /\ UNCHANGED counter
    ELSE /\ counter' = counter + 1
         /\ gate' = [gate EXCEPT ![g].held = @ \cup {what}, ![g].pc = next]

ReservePending(g) ==
    /\ gate[g].pc = "pending"
    /\ Reserve(g, pending, "pending", MaxPending, "connection")
    /\ UNCHANGED <<now, connections, outcomes>> /\ ManagerUnchanged

ReserveConnection(g) ==
    /\ gate[g].pc = "connection"
    /\ Reserve(g, connections, "connection", MaxConnections, "outcome")
    /\ UNCHANGED <<now, pending, outcomes>> /\ ManagerUnchanged

\* The room is computed from the gate's snapshot, at the gate's time.
ReserveOutcome(g) ==
    /\ gate[g].pc = "outcome"
    /\ Reserve(g, outcomes, "outcome", OutcomeRoom(gate[g].snap, gate[g].at), "reflag")
    /\ UNCHANGED <<now, pending, connections>> /\ ManagerUnchanged

RereadFlag(g) ==
    /\ gate[g].pc = "reflag"
    /\ IF shuttingDown THEN Supersede(g) ELSE Goto(g, "recurrent")
    /\ UNCHANGED now /\ CountersUnchanged /\ ManagerUnchanged

\* The ticket leaves the gate: a key, a time and three reservations.
HandOut(g) ==
    gate' = [gate EXCEPT ![g] = [Resting EXCEPT !.pc = "granted", !.key = gate[g].key,
                                                !.at = gate[g].at, !.held = Counters]]

\* Mutant of Grant: the snapshot is not looked at again.
GrantUnchecked(g) ==
    /\ gate[g].pc = "recurrent"
    /\ HandOut(g)
    /\ UNCHANGED now /\ CountersUnchanged /\ ManagerUnchanged

\* The second `is_current`, after which the ticket is the caller's.
Grant(g) ==
    /\ gate[g].pc = "recurrent"
    /\ IF gate[g].fresh THEN HandOut(g) ELSE Supersede(g)
    /\ UNCHANGED now /\ CountersUnchanged /\ ManagerUnchanged

\* The owner of a ticket drops it without reporting an outcome.
Abandon(g) ==
    /\ gate[g].pc = "granted"
    /\ Goto(g, "drop")
    /\ UNCHANGED now /\ CountersUnchanged /\ ManagerUnchanged

Released(g, what) ==
    IF gate[g].held = {what} THEN Over(g, gate[g].again)
    ELSE gate' = [gate EXCEPT ![g].held = @ \ {what}]

\* `Drop for DialTicket`: outcome, connection, pending, in this order.
DropTicket(g) ==
    /\ gate[g].pc = "drop"
    /\ \/ /\ "outcome" \in gate[g].held
          /\ Released(g, "outcome")
          /\ outcomes' = outcomes - 1
          /\ UNCHANGED <<pending, connections>>
       \/ /\ "outcome" \notin gate[g].held /\ "connection" \in gate[g].held
          /\ Released(g, "connection")
          /\ connections' = connections - 1
          /\ UNCHANGED <<pending, outcomes>>
       \/ /\ gate[g].held = {"pending"}
          /\ Released(g, "pending")
          /\ pending' = pending - 1
          /\ UNCHANGED <<connections, outcomes>>
    /\ UNCHANGED now /\ ManagerUnchanged

GateStep(g) ==
    \/ Load(g) \/ ReadFlag(g) \/ ReadCurrent(g)
    \/ ReservePending(g) \/ ReserveConnection(g) \/ ReserveOutcome(g)
    \/ RereadFlag(g) \/ Grant(g) \/ DropTicket(g)

-----------------------------------------------------------------------------
(* The manager. A call changes the policy, may settle a ticket, and ends    *)
(* with `publish`.                                                          *)

Then(step) == manager' = [pc |-> step, keeps |-> FALSE]

\* `record_success`, `record_failure`, `record_identity_mismatch` and the
\* other ends of a dial, up to `settle`: the ticket is consumed.
Settle(g, changed, keeps) ==
    /\ manager.pc = "idle"
    /\ gate[g].pc = "granted"
    /\ policy' = changed
    /\ gate' = [gate EXCEPT ![g] = Resting]
    /\ manager' = [pc |-> "settle", keeps |-> keeps]
    /\ UNCHANGED <<now, published, shuttingDown, toReturn, slots>> /\ CountersUnchanged

\* `record_success`: the address is good again.
RecordSuccess(g) == Settle(g, [policy EXCEPT !.until[gate[g].key] = 0], TRUE)

\* `record_failure` and the outcomes that leave quarantines alone.
RecordFailure(g) == Settle(g, policy, FALSE)

\* `record_identity_mismatch`: the address is quarantined if there is room.
RecordIdentityMismatch(g) ==
    Settle(g, IF CanQuarantine(policy, gate[g].key, now)
              THEN [policy EXCEPT !.until[gate[g].key] = now + Quarantine]
              ELSE policy,
           FALSE)

\* Mutant of SettlePending: the outcome is returned before it is published.
SettleReturnsAtOnce ==
    /\ manager.pc = "settle"
    /\ pending' = pending - 1
    /\ outcomes' = outcomes - 1
    /\ IF manager.keeps THEN slots' = slots + 1 /\ Then("install")
                        ELSE slots' = slots /\ Then("drop")
    /\ UNCHANGED <<now, policy, published, shuttingDown, connections, toReturn, gate>>

\* `settle`: the dial is no longer pending; its outcome goes back only when
\* the policy that shows it is published.
SettlePending ==
    /\ manager.pc = "settle"
    /\ pending' = pending - 1
    /\ toReturn' = toReturn + 1
    /\ IF manager.keeps THEN slots' = slots + 1 /\ Then("install")
                        ELSE slots' = slots /\ Then("drop")
    /\ UNCHANGED <<now, policy, published, shuttingDown, connections, outcomes, gate>>

\* The settled ticket is dropped: its connection slot goes unless kept.
DropSettled ==
    /\ manager.pc = "drop"
    /\ connections' = connections - 1
    /\ Then("install")
    /\ UNCHANGED <<now, policy, published, shuttingDown, pending, outcomes, toReturn,
                   slots, gate>>

\* `publish` installs the snapshot first.
Install ==
    /\ manager.pc = "install"
    /\ published' = policy
    /\ gate' = [g \in Gates |-> [gate[g] EXCEPT !.fresh = FALSE]]
    /\ Then("return")
    /\ UNCHANGED <<now, policy, shuttingDown, toReturn, slots>> /\ CountersUnchanged

\* Mutant of ReturnOutcomes: the outcomes stay taken.
ReturnNothing ==
    /\ manager.pc = "return"
    /\ toReturn' = 0
    /\ Then("idle")
    /\ UNCHANGED <<now, policy, published, shuttingDown, pending, connections, outcomes,
                   slots, gate>>

\* `publish` returns the outcomes second.
ReturnOutcomes ==
    /\ manager.pc = "return"
    /\ outcomes' = outcomes - toReturn
    /\ toReturn' = 0
    /\ Then("idle")
    /\ UNCHANGED <<now, policy, published, shuttingDown, pending, connections, slots, gate>>

\* `learn_address`: into the book, and not published by itself.
LearnAddress(key) ==
    /\ manager.pc = "idle"
    /\ key.peer \in policy.authorized
    /\ key \notin policy.book
    /\ policy' = [policy EXCEPT !.book = @ \cup {key}]
    /\ UNCHANGED <<now, published, shuttingDown, toReturn, slots, manager, gate>>
    /\ CountersUnchanged

\* `hand_over`: an address leaves the book. A live quarantine takes its
\* entry along, needs room outside, which it reserves like a gate, and is
\* published at once. Otherwise it is up to the caller: `learn_address`
\* publishes nothing, `record_permanent_failure` does.
HandOver(key) ==
    /\ manager.pc = "idle"
    /\ key \in policy.book
    /\ \/ /\ ~Live(policy, key, now)
          /\ policy' = [policy EXCEPT !.book = @ \ {key}]
          /\ UNCHANGED <<outcomes, toReturn>>
          /\ Then("install") \/ UNCHANGED manager
       \/ /\ Live(policy, key, now) /\ outcomes >= OutcomeRoom(policy, now)
          /\ Then("install")
          /\ UNCHANGED <<policy, outcomes, toReturn>>
       \/ /\ Live(policy, key, now) /\ outcomes < OutcomeRoom(policy, now)
          /\ policy' = [policy EXCEPT !.book = @ \ {key}]
          /\ outcomes' = outcomes + 1
          /\ toReturn' = toReturn + 1
          /\ Then("install")
    /\ UNCHANGED <<now, published, shuttingDown, slots, gate, pending, connections>>

\* `set_trust`.
SetTrust(peers) ==
    /\ manager.pc = "idle"
    /\ policy' = [policy EXCEPT !.authorized = peers]
    /\ Then("install")
    /\ UNCHANGED <<now, published, shuttingDown, toReturn, slots, gate>> /\ CountersUnchanged

\* `begin_shutdown`.
BeginShutdown ==
    /\ manager.pc = "idle"
    /\ ~shuttingDown
    /\ shuttingDown' = TRUE
    /\ policy' = [policy EXCEPT !.open = FALSE]
    /\ Then("install")
    /\ UNCHANGED <<now, published, toReturn, slots, gate>> /\ CountersUnchanged

\* `admit_inbound`.
AdmitInbound ==
    /\ manager.pc = "idle"
    /\ ~shuttingDown
    /\ connections < MaxConnections
    /\ connections' = connections + 1
    /\ slots' = slots + 1
    /\ Then("install")
    /\ UNCHANGED <<now, policy, published, shuttingDown, pending, outcomes, toReturn, gate>>

\* `record_connection_closed`.
ConnectionClosed ==
    /\ manager.pc = "idle"
    /\ slots > 0
    /\ slots' = slots - 1
    /\ connections' = connections - 1
    /\ Then("install")
    /\ UNCHANGED <<now, policy, published, shuttingDown, pending, outcomes, toReturn, gate>>

Publishing == SettlePending \/ DropSettled \/ Install \/ ReturnOutcomes

ManagerCall ==
    \/ \E g \in Gates : RecordSuccess(g) \/ RecordFailure(g) \/ RecordIdentityMismatch(g)
    \/ \E key \in Keys : LearnAddress(key) \/ HandOver(key)
    \/ \E peers \in TrustSets : SetTrust(peers)
    \/ BeginShutdown \/ AdmitInbound \/ ConnectionClosed

Tick ==
    /\ now < MaxTime
    /\ now' = now + 1
    /\ UNCHANGED gate /\ CountersUnchanged /\ ManagerUnchanged

AdmissionInit ==
    /\ now = 0
    /\ policy = NewPolicy /\ published = NewPolicy
    /\ shuttingDown = FALSE
    /\ pending = 0 /\ connections = 0 /\ outcomes = 0
    /\ toReturn = 0 /\ slots = 0
    /\ manager = [pc |-> "idle", keeps |-> FALSE]
    /\ gate = [g \in Gates |-> Resting]

AdmissionNext ==
    \/ \E g \in Gates, key \in Keys : Ask(g, key)
    \/ \E g \in Gates : GateStep(g)
    \/ \E g \in Gates : Abandon(g)
    \/ Publishing
    \/ ManagerCall
    \/ Tick

AdmissionSpec == AdmissionInit /\ [][AdmissionNext]_admissionVars

-----------------------------------------------------------------------------
(* What the funnel promises. *)

Holding(what) == {g \in Gates : what \in gate[g].held}

Granted == {g \in Gates : gate[g].pc = "granted"}

\* The counters are exact whatever interleaving of reservations, refusals,
\* drops and settlements led here: nothing leaks, nothing is returned
\* twice, and the limits on dials and connections hold.
CountersExact ==
    /\ pending = Cardinality(Holding("pending"))
                  + (IF manager.pc = "settle" THEN 1 ELSE 0)
    /\ connections = Cardinality(Holding("connection")) + slots
                      + (IF manager.pc \in {"settle", "drop"} THEN 1 ELSE 0)
    /\ outcomes = Cardinality(Holding("outcome")) + toReturn
                  + (IF manager.pc = "settle" THEN 1 ELSE 0)
    /\ pending <= MaxPending
    /\ connections <= MaxConnections

\* The point of the outcome counter: whatever dials are still out, each one
\* can have its address quarantined if it reaches the wrong peer, so an
\* identity mismatch is never forgotten for want of room.
MismatchAlwaysRecorded ==
    \A g \in Granted : CanQuarantine(policy, gate[g].key, now)

\* A ticket is handed out only for what the snapshot in force at that very
\* moment admits: not for a peer revoked in it, not for a quarantined
\* address, not after a shutdown was published.
GrantStep ==
    \A g \in Gates :
        (gate[g].pc # "granted" /\ gate'[g].pc = "granted") =>
            PolicyAdmits(published, gate[g].key, gate[g].at)

\* No step grants what the snapshot published at that step refuses
\* (`SnapshotHandle::admit`: a superseded snapshot refuses).
GrantsAreCurrent == [][GrantStep]_admissionVars

=============================================================================
