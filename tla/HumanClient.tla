---------------------------- MODULE HumanClient -----------------------------
(***************************************************************************)
(* The human transport client, crates/human/transport-client/src/client.rs *)
(* and problem.rs, with the commands of its owner,                         *)
(* crates/human/app-core/src/facade.rs, over the store.                    *)
(*                                                                         *)
(* One task owns the client: a command, or one turn (`tick`, then `drain`) *)
(* runs to its end before the next. A turn is several steps here, because  *)
(* the process may die, the medium fail and the network act between them.  *)
(* A deadline is "due", "later" (set, and not reached) or "none": the      *)
(* clock is read once per turn, so it moves between turns only.            *)
(***************************************************************************)
EXTENDS HumanStore

CONSTANTS
    Undecodable, \* the received payloads `decode` refuses
    Configs,     \* what the configuration may let this client send to
    SendErrors,  \* the errors a send may end with
    Ambiguous,   \* the transport's: the ones after which the remote may have it
    OpenErrors,  \* the errors an open may end with
    MaxInbox,    \* bound on what a session's queue holds
    HeldCap,     \* HELD_CAP
    DrainMax,    \* DRAIN_PER_TURN
    LeaseLost    \* the event EndpointLeaseChanged

ASSUME ClientAssumption ==
    /\ Undecodable \subseteq Incoming
    /\ Configs \subseteq SUBSET Outgoing
    /\ Ambiguous \subseteq SendErrors
    /\ LeaseLost \notin Incoming
    /\ {MaxInbox, HeldCap, DrainMax} \subseteq Nat \ {0}

VARIABLES
    state,    \* SessionState; "Down" while the process is not running
    deadline, \* of the reopen or the recheck, whichever `state` waits for
    refused,  \* refused_before_degrade
    open,     \* the session and the lease: "none", "live", or "dead" unnoticed
    rows,     \* message -> Row
    undo,     \* the cancelled sends that can be taken back
    copies,   \* the ReadEphemeral copies a Keep may use
    held,     \* received, and not yet handed over
    allowed,  \* the destinations of the configuration
    turn,     \* where the turn stands
    inbox,    \* the session's event queue
    remote,   \* ghost: the messages the remote side took in
    composed, \* ghost: every message ever committed as pending
    withdrawn,\* ghost: every message ever cancelled
    unrecorded,\* ghost: sent by this process without the attempt on record
    forgotten,\* ghost: the same, by an earlier process
    released  \* ghost: received messages, in the order last read or unkept

sessionVars == <<state, deadline, refused, open>>
memos == <<unrecorded, forgotten>>
outVars == <<rows, undo, remote, composed, withdrawn, memos>>
inVars == <<copies, held, inbox, released>>
clientVars == <<sessionVars, outVars, inVars, allowed, turn>>
vars == <<storeVars, clientVars>>

Due == {"due", "later", "none"}

At(where) == turn.at = where

-----------------------------------------------------------------------------
(* problem.rs. *)

\* `classify_send`: the errors after which the message is tried again by
\* itself. Every other one waits for the person.
RetriedErrors ==
    {"Timeout", "CancellationRaced", "PeerUnreachable", "PeerUnknown",
     "Overloaded", "RemoteEndpointUnavailable", "BackendUnavailable",
     "ShuttingDown", "EndpointNotRegistered", "ChannelNotJoined",
     "CancelledBeforeDispatch"}

\* `may_have_reached`.
MayHaveReached ==
    {"Timeout", "CancellationRaced", "BackendUnavailable", "ShuttingDown",
     "PeerUnreachable", "ProtocolViolation", "Internal"}

\* The transport's side of it: no other error comes after a request that may
\* have left.
ASSUME DispatchAssumption == Ambiguous \subseteq MayHaveReached

\* `ends_session`.
EndsSession ==
    {"BackendUnavailable", "ShuttingDown", "EndpointNotRegistered", "ChannelNotJoined"}

\* `classify_open`: the errors an open is tried again after. Every other one
\* leaves the session refused.
RetriedOpens ==
    {"BackendUnavailable", "ShuttingDown", "Timeout", "Overloaded",
     "PeerUnreachable", "CancelledBeforeDispatch", "CancellationRaced"}

-----------------------------------------------------------------------------
(* Session transitions. *)

\* `enter_degraded`: the session is closed with what it holds, and the store
\* is looked at again later. Never leaves Closed; a refusal is remembered.
EnterDegraded ==
    IF state \in {"Closed", "StorageDegraded"}
    THEN UNCHANGED <<sessionVars, inbox>>
    ELSE /\ state' = "StorageDegraded" /\ deadline' = "later"
         /\ refused' = (refused \/ state = "Refused")
         /\ open' = "none" /\ inbox' = <<>>

\* `take`, one event: a duplicate or an undecodable payload is skipped, and
\* after the first commit that fails the rest is dropped. A store that cannot
\* be written by the end of the read took `most` of it before.
TakeEvent(taken, event, most) ==
    IF taken.failed \/ event = LeaseLost \/ event \in Undecodable THEN taken
    ELSE IF health = "Degraded" THEN [taken EXCEPT !.failed = TRUE]
    ELSE IF KnownInbound(event, taken.unread) THEN taken
    ELSE IF medium # "ok" /\ Len(taken.got) = most THEN [taken EXCEPT !.failed = TRUE]
    ELSE [taken EXCEPT !.unread = @ \cup {event}, !.got = Append(@, event)]

Take(rowsBefore, events, most) ==
    LET upTo[n \in 0..Len(events)] ==
            IF n = 0 THEN [unread |-> rowsBefore, got |-> <<>>, failed |-> FALSE]
            ELSE TakeEvent(upTo[n - 1], events[n], most)
    IN  upTo[Len(events)]

\* The health a take leaves: a failure of the medium is remembered.
HealthAfter(taken) ==
    IF taken.failed /\ medium = "failing" THEN "Degraded" ELSE health

\* What a take leaves in the store.
Stores(taken) ==
    /\ unread' = taken.unread
    /\ health' = HealthAfter(taken)
    /\ UNCHANGED <<pending, kept, pairs, medium>>

\* `Capped::push`: what does not fit stays in the store only.
HoldUpToCap(received) ==
    SubSeq(received, 1, IF Len(received) < HeldCap THEN Len(received) ELSE HeldCap)

\* Mutant of LoseSession: what the session still holds goes with it.
LoseSessionAtOnce(rowsBefore, rest, heldBefore) ==
    /\ unread' = rowsBefore /\ held' = heldBefore
    /\ inbox' = <<>> /\ open' = "none" /\ state' = "Reconnecting" /\ deadline' = "later"
    /\ UNCHANGED <<pending, kept, pairs, medium, health, refused>>

\* `lose_session` and `take_the_rest`: what the session still holds is
\* committed, and held for later up to the cap; then the session is closed.
LoseSession(rowsBefore, rest, heldBefore) ==
    \E most \in 0..Len(rest) :
        LET taken == Take(rowsBefore, rest, most)
        IN  /\ Stores(taken)
            /\ held' = HoldUpToCap(heldBefore \o taken.got)
            /\ IF HealthAfter(taken) = "Degraded"
               THEN EnterDegraded
               ELSE /\ state' = "Reconnecting" /\ deadline' = "later"
                    /\ open' = "none" /\ inbox' = <<>>
                    /\ UNCHANGED refused

-----------------------------------------------------------------------------
(* The person's commands. *)

Running == state # "Down"
Commands == Running /\ At("idle")

\* A row that is tried at the next turn.
FreshRow(reached) == [attention |-> FALSE, next |-> "due", reached |-> reached]

\* A commit that finds or leaves the store degraded degrades the session at
\* once; one that is refused otherwise only fails.
InsertFailsHere ==
    /\ InsertFails
    /\ IF health' = "Degraded" THEN EnterDegraded ELSE UNCHANGED <<sessionVars, inbox>>

CommitFails ==
    /\ InsertFailsHere
    /\ UNCHANGED <<outVars, copies, held, released, allowed, turn>>

\* `send`: the pending copy is committed first. Ids are random, so none is
\* ever composed twice.
Send(m) ==
    /\ Commands
    /\ m \in allowed \ composed
    /\ \/ /\ InsertPending(m, FALSE)
          /\ rows' = MapPut(rows, m, FreshRow(FALSE))
          /\ composed' = composed \cup {m}
          /\ UNCHANGED <<undo, remote, withdrawn, memos, sessionVars, inVars, allowed, turn>>
       \/ CommitFails

\* `retry`: the person asks for another attempt now.
Retry(m) ==
    /\ Commands /\ m \in DOMAIN rows
    /\ rows' = [rows EXCEPT ![m].attention = FALSE, ![m].next = "due"]
    /\ UNCHANGED <<storeVars, sessionVars, inVars, undo, remote, composed, withdrawn, memos,
                   allowed, turn>>

\* `cancel`: the durable copy goes first; the record is kept to undo it, if
\* the store could take it back.
Cancel(m) ==
    /\ Commands /\ m \in DOMAIN rows
    /\ \/ /\ TransportTerminal(m)
          /\ rows' = MapDrop(rows, {m})
          /\ withdrawn' = withdrawn \cup {m}
          /\ undo' = IF health = "Degraded" THEN undo
                     ELSE MapPut(undo, m, [attempted |-> pending[m], reached |-> rows[m].reached])
          /\ UNCHANGED <<remote, composed, memos, sessionVars, inVars, allowed, turn>>
       \/ (WriteFails \/ WriteRefused) /\ UNCHANGED clientVars

\* `Command::Restore`: the record is used up whatever comes of it.
Restore(m) ==
    /\ Commands /\ m \in DOMAIN undo
    /\ undo' = MapDrop(undo, {m})
    /\ UNCHANGED <<remote, composed, memos, copies, held, released, allowed, turn>>
    /\ \/ /\ m \in allowed /\ InsertPending(m, undo[m].attempted)
          /\ rows' = MapPut(rows, m, FreshRow(undo[m].reached))
          /\ withdrawn' = withdrawn \ {m}
          /\ UNCHANGED <<sessionVars, inbox>>
       \/ m \in allowed /\ InsertFailsHere /\ UNCHANGED <<rows, withdrawn>>
       \/ m \notin allowed /\ UNCHANGED <<rows, withdrawn, storeVars, sessionVars, inbox>>

\* `Command::ForgetCancelled`, and the oldest record past CANCELLED_CAP.
ForgetCancelled(m) ==
    /\ Running /\ m \in DOMAIN undo
    /\ undo' = MapDrop(undo, {m})
    /\ UNCHANGED <<storeVars, sessionVars, inVars, rows, remote, composed, withdrawn, memos,
                   allowed, turn>>

\* Reading or releasing a message puts it at the end of `released`.
ReleasedNow(k) == released' = Append(AllBut(released, k), k)

Unmoved == UNCHANGED <<sessionVars, outVars, held, inbox, allowed, turn>>

\* `Command::MarkRead`: the store's copy goes, and the caller holds one.
MarkRead(k) ==
    /\ Commands /\ k \in unread /\ Unmoved
    /\ \/ StoreMarkRead(k) /\ copies' = copies \cup {k} /\ ReleasedNow(k)
       \/ (WriteFails \/ WriteRefused) /\ UNCHANGED <<copies, released>>

\* `Command::Keep`, of a copy that was read and is still held.
Keep(k) ==
    /\ Commands /\ k \in copies /\ Unmoved
    /\ \/ StoreKeep(k) /\ copies' = copies \ {k}
       \/ InsertFails /\ UNCHANGED copies
    /\ UNCHANGED released

\* `Command::Unkeep`: the caller may keep it again.
Unkeep(k) ==
    /\ Commands /\ k \in kept /\ Unmoved
    /\ \/ StoreUnkeep(k) /\ copies' = copies \cup {k} /\ ReleasedNow(k)
       \/ (WriteFails \/ WriteRefused) /\ UNCHANGED <<copies, released>>

\* `Command::ForgetCopy`, and the oldest copy past the cap of `ReadCopies`.
ForgetCopy(k) ==
    /\ Running /\ k \in copies /\ Unmoved
    /\ copies' = copies \ {k}
    /\ UNCHANGED <<storeVars, released>>

\* `reopen`: only a refused session is opened again at the person's word.
Reopen ==
    /\ Commands /\ state = "Refused"
    /\ state' = "Reconnecting" /\ deadline' = "due"
    /\ UNCHANGED <<storeVars, refused, open, outVars, inVars, allowed, turn>>

\* `tick_storage` when its time has come: a store that recovered brings back
\* the state that was left, and one that did not is looked at again later.
TickStorage ==
    /\ state = "StorageDegraded"
    /\ RecheckHealth
    /\ IF medium = "ok"
       THEN /\ state' = IF refused THEN "Refused" ELSE "Reconnecting"
            /\ deadline' = IF refused THEN "none" ELSE "due"
            /\ refused' = FALSE
       ELSE deadline' = "later" /\ UNCHANGED <<state, refused>>
    /\ UNCHANGED <<open, inbox>>

\* `recheck`: the person asks for the store to be looked at now.
Recheck ==
    /\ Commands /\ TickStorage
    /\ UNCHANGED <<outVars, copies, held, released, allowed, turn>>

\* `close`: the session ends, and the facade does nothing more.
Close ==
    /\ Commands
    /\ state' = "Closed" /\ open' = "none" /\ inbox' = <<>> /\ deadline' = "none"
    /\ UNCHANGED <<storeVars, refused, outVars, copies, held, released, allowed, turn>>

-----------------------------------------------------------------------------
(* One turn: `tick`, then `drain`. *)

NextStep(where) == turn' = [at |-> where]

\* The store went degraded outside a commit of the facade.
FindsDegraded == health = "Degraded" /\ state \notin {"Closed", "StorageDegraded"}

\* `tick` begins: a store found degraded closes the session; one whose
\* recheck is due is looked at.
TickBegins ==
    /\ Commands
    /\ IF FindsDegraded
       THEN EnterDegraded /\ UNCHANGED storeVars
       ELSE IF state = "StorageDegraded" /\ deadline = "due"
       THEN TickStorage
       ELSE UNCHANGED <<storeVars, sessionVars, inbox>>
    /\ NextStep("session")
    /\ UNCHANGED <<outVars, copies, held, released, allowed>>

\* `tick_session` after an error of `open`: tried again later, or refused.
OpenFails(e) ==
    /\ state' = IF e \in RetriedOpens THEN "Reconnecting" ELSE "Refused"
    /\ deadline' = IF e \in RetriedOpens THEN "later" ELSE "none"
    /\ NextStep("retry")

\* `tick_session` and `open` up to the joins: when its time has come, a session
\* is opened. It holds its lease from here on.
TickSession ==
    /\ At("session")
    /\ IF state = "Reconnecting" /\ deadline = "due"
       THEN \/ open' = "live" /\ NextStep("joining") /\ UNCHANGED <<state, deadline>>
            \/ \E e \in OpenErrors : OpenFails(e) /\ UNCHANGED open
       ELSE NextStep("retry") /\ UNCHANGED <<state, deadline, open>>
    /\ UNCHANGED <<storeVars, refused, outVars, inVars, allowed>>

\* The joins of `open` have all been answered.
Joined ==
    /\ At("joining")
    /\ state' = "Ready" /\ deadline' = "none"
    /\ NextStep("retry")
    /\ UNCHANGED <<storeVars, refused, open, outVars, inVars, allowed>>

\* A join of `open` fails: the session is closed, with what it holds.
JoinFails ==
    /\ At("joining")
    /\ \E e \in OpenErrors : OpenFails(e)
    /\ open' = "none" /\ inbox' = <<>>
    /\ UNCHANGED <<storeVars, refused, outVars, copies, held, released, allowed>>

\* `retry_due` finds a row whose time has come.
IsDue(m) ==
    m \in DOMAIN pending \cap DOMAIN rows /\ ~rows[m].attention /\ rows[m].next = "due"

\* A write the turn makes fails: with the store degraded the session is too.
WriteFailsHere ==
    /\ WriteFails \/ WriteRefused
    /\ IF health' = "Degraded" THEN EnterDegraded ELSE UNCHANGED <<sessionVars, inbox>>

Leaves(m) ==
    /\ rows' = [rows EXCEPT ![m].next = "none"]
    /\ turn' = [at |-> "sending", m |-> m]

\* `attempt` up to the send. A record that is refused without degrading the
\* store does not stop the send.
Attempt(m) ==
    /\ At("retry") /\ state = "Ready" /\ IsDue(m)
    /\ \/ /\ m \notin allowed
          /\ rows' = [rows EXCEPT ![m].attention = TRUE, ![m].next = "none"]
          /\ UNCHANGED <<storeVars, sessionVars, inbox, turn, unrecorded>>
       \/ /\ m \in allowed /\ RecordAttempt(m) /\ Leaves(m)
          /\ UNCHANGED <<sessionVars, inbox, unrecorded>>
       \/ /\ m \in allowed /\ WriteFailsHere
          /\ IF health' = "Degraded" THEN UNCHANGED <<rows, turn, unrecorded>>
             ELSE Leaves(m) /\ unrecorded' = unrecorded \cup {m}
    /\ UNCHANGED <<undo, remote, composed, withdrawn, forgotten, copies, held, released,
                   allowed>>

\* The transport answers a send. A success means the remote side took the
\* message in, and an error outside Ambiguous that this attempt did not bring
\* it there. A dead session answers BackendUnavailable.
Answer(answer) ==
    /\ At("sending")
    /\ answer = "Ok" => open = "live"
    /\ open = "dead" => answer = "BackendUnavailable"
    /\ turn' = [at |-> "answered", m |-> turn.m, answer |-> answer]
    /\ remote' \in IF answer = "Ok" THEN {remote \cup {turn.m}}
                   ELSE IF answer \in Ambiguous THEN {remote, remote \cup {turn.m}}
                   ELSE {remote}
    /\ UNCHANGED <<storeVars, sessionVars, inVars, rows, undo, composed, withdrawn, memos, allowed>>

\* `attempt` after a success: terminal whether or not the copy can be deleted.
Succeeded ==
    /\ At("answered") /\ turn.answer = "Ok"
    /\ \/ TransportTerminal(turn.m) /\ UNCHANGED <<sessionVars, inbox>>
       \/ WriteFailsHere
    /\ rows' = MapDrop(rows, {turn.m})
    /\ NextStep("retry")
    /\ UNCHANGED <<undo, remote, composed, withdrawn, memos, copies, held, released, allowed>>

\* Mutant of FailedRow: an error that ends the session leaves no deadline.
FailedRowUnscheduled(m, error) ==
    [rows[m] EXCEPT
        !.reached = @ \/ error \in MayHaveReached,
        !.attention = error \notin RetriedErrors,
        !.next = IF error \in RetriedErrors \ EndsSession THEN "later" ELSE "none"]

\* `failed`: the row is tried again later, or waits for the person.
FailedRow(m, error) ==
    [rows[m] EXCEPT
        !.reached = @ \/ error \in MayHaveReached,
        !.attention = error \notin RetriedErrors,
        !.next = IF error \in RetriedErrors THEN "later" ELSE "none"]

\* `attempt` after an error, which may also end the session.
Failed ==
    /\ At("answered") /\ turn.answer # "Ok"
    /\ rows' = [rows EXCEPT ![turn.m] = FailedRow(turn.m, turn.answer)]
    /\ IF turn.answer \in EndsSession
       THEN LoseSession(unread, inbox, held)
       ELSE UNCHANGED <<storeVars, sessionVars, inbox, held>>
    /\ NextStep("retry")
    /\ UNCHANGED <<undo, remote, composed, withdrawn, memos, copies, released, allowed>>

\* `retry_due` ends: nothing is due, or the session is not ready.
RetryEnds ==
    /\ At("retry")
    /\ state # "Ready" \/ ~\E m \in Outgoing : IsDue(m)
    /\ NextStep("drain")
    /\ UNCHANGED <<storeVars, sessionVars, outVars, inVars, allowed>>

\* `drain`: what is held comes first, then the session is read for as many
\* events as there is room for.
Drain ==
    /\ At("drain")
    /\ LET first == SubSeq(held, 1, IF Len(held) < DrainMax THEN Len(held) ELSE DrainMax)
           later == SubSeq(held, Len(first) + 1, Len(held))
           room == DrainMax - Len(first)
           n == IF Len(inbox) < room THEN Len(inbox) ELSE room
           events == SubSeq(inbox, 1, n)
           rest == SubSeq(inbox, n + 1, Len(inbox))
       IN  \/ /\ room = 0 \/ open = "none"
              /\ held' = later
              /\ UNCHANGED <<storeVars, sessionVars, inbox>>
           \/ /\ room > 0 /\ open = "dead"
              /\ LoseSession(unread, inbox, later)
           \/ /\ room > 0 /\ open = "live"
              /\ \E most \in 0..n :
                    LET taken == Take(unread, events, most)
                    IN  IF taken.failed
                           THEN Stores(taken) /\ held' = later /\ EnterDegraded
                           ELSE IF LeaseLost \in Range(events)
                           THEN LoseSession(taken.unread, rest, later)
                           ELSE /\ Stores(taken) /\ held' = later /\ inbox' = rest
                                /\ UNCHANGED sessionVars
    /\ NextStep("idle")
    /\ UNCHANGED <<outVars, copies, released, allowed>>

-----------------------------------------------------------------------------
(* What happens around the client. *)

\* A deadline is reached, between two turns.
DeadlineReached ==
    /\ Commands /\ deadline = "later" /\ deadline' = "due"
    /\ UNCHANGED <<storeVars, state, refused, open, outVars, inVars, allowed, turn>>

RowDeadlineReached(m) ==
    /\ Commands /\ m \in DOMAIN rows /\ rows[m].next = "later"
    /\ rows' = [rows EXCEPT ![m].next = "due"]
    /\ UNCHANGED <<storeVars, sessionVars, inVars, undo, remote, composed, withdrawn, memos,
                   allowed, turn>>

\* The transport puts an event into the session's queue: an accepted message,
\* a second copy of one, or the loss of the lease.
Arrive(event) ==
    /\ open = "live" /\ Len(inbox) < MaxInbox
    /\ inbox' = Append(inbox, event)
    /\ UNCHANGED <<storeVars, sessionVars, outVars, copies, held, released,
                   allowed, turn>>

\* The daemon goes away, and the session's queue with it.
SessionDies ==
    /\ open = "live"
    /\ open' = "dead" /\ inbox' = <<>>
    /\ UNCHANGED <<storeVars, state, deadline, refused, outVars, copies, held,
                   released, allowed, turn>>

\* The process dies: only the tables survive.
Crash ==
    /\ Running
    /\ state' = "Down" /\ deadline' = "none" /\ refused' = FALSE /\ open' = "none"
    /\ rows' = EmptyMap /\ undo' = EmptyMap
    /\ copies' = {} /\ held' = <<>> /\ inbox' = <<>>
    /\ forgotten' = forgotten \cup unrecorded /\ unrecorded' = {}
    /\ NextStep("idle")
    /\ UNCHANGED <<storeVars, remote, composed, withdrawn, released, allowed>>

\* The rows `new` reads, page after page. An attempt on record may have
\* reached the remote.
LoadedRows == [m \in DOMAIN pending |-> FreshRow(pending[m])]

\* The store is opened and `new` reads every pending row.
Start ==
    /\ state = "Down"
    /\ OpenStore
    /\ allowed' \in Configs
    /\ rows' = LoadedRows
    /\ state' = "Reconnecting" /\ deadline' = "due"
    /\ UNCHANGED <<refused, open, undo, remote, composed, withdrawn, memos, inVars, turn>>

ClientInit ==
    /\ StoreInit
    /\ state = "Down" /\ deadline = "none" /\ refused = FALSE /\ open = "none"
    /\ rows = EmptyMap /\ undo = EmptyMap
    /\ copies = {} /\ held = <<>> /\ inbox = <<>>
    /\ allowed \in Configs /\ turn = [at |-> "idle"]
    /\ remote = {} /\ composed = {} /\ withdrawn = {}
    /\ unrecorded = {} /\ forgotten = {}
    /\ released = <<>>

Outbound(m) ==
    Send(m) \/ Retry(m) \/ Cancel(m) \/ Restore(m) \/ ForgetCancelled(m)

Inbound(k) == MarkRead(k) \/ Keep(k) \/ Unkeep(k) \/ ForgetCopy(k) \/ Arrive(k)

\* The steps of a turn that the client takes by itself.
TurnStep ==
    \/ TickBegins \/ TickSession \/ Joined \/ JoinFails \/ RetryEnds \/ Drain \/ Succeeded \/ Failed
    \/ \E m \in Outgoing : Attempt(m)

Surroundings ==
    \/ DeadlineReached \/ SessionDies \/ Arrive(LeaseLost) \/ Crash \/ Start
    \/ MediumChanges /\ UNCHANGED clientVars
    \/ \E m \in Outgoing : RowDeadlineReached(m)
    \/ \E answer \in SendErrors \cup {"Ok"} : Answer(answer)

ClientNext ==
    \/ \E m \in Outgoing : Outbound(m)
    \/ \E k \in Incoming : Inbound(k)
    \/ Reopen \/ Recheck \/ Close
    \/ TurnStep
    \/ Surroundings

ClientSpec == ClientInit /\ [][ClientNext]_vars

\* The root runs turns for ever, deadlines are reached, and the transport
\* answers. What is tried for ever succeeds for ever: an open, and a send.
ClientFairness ==
    /\ WF_vars(TurnStep)
    /\ SF_vars(DeadlineReached)
    /\ \A m \in Outgoing : SF_vars(RowDeadlineReached(m))
    /\ WF_vars(\E answer \in SendErrors \cup {"Ok"} : Answer(answer))
    /\ SF_vars(TickSession /\ open' = "live" /\ open = "none")
    /\ SF_vars(Joined)
    /\ SF_vars(Answer("Ok"))

FairClientSpec == ClientSpec /\ ClientFairness

-----------------------------------------------------------------------------
(* Properties. *)

\* A message that was committed as pending stays in the store, through
\* crashes, failing writes and retries, until the remote side took it in or
\* the person withdrew it.
NothingPendingLost == composed \ DOMAIN pending \subseteq remote \cup withdrawn

UnderWay(m) == turn.at \in {"sending", "answered"} /\ turn.m = m

\* "May have reached the remote" is said of every message that did, as soon
\* as no attempt of it is under way: after an ambiguous error, after a
\* restart, and after a cancel that was taken back. The exception is a
\* message an earlier process sent though the store had refused to record the
\* attempt, without degrading.
HonestAboutReach ==
    \A m \in remote \ forgotten :
        /\ m \in DOMAIN rows /\ ~UnderWay(m) => rows[m].reached
        /\ m \in DOMAIN undo => undo[m].reached

\* The same with no exception: "the store records an attempt BEFORE the
\* transport call, so it errs only toward "may"" (client-api lib.rs,
\* `Cancelled`).
ErrsOnlyTowardMay ==
    \A m \in remote \cap DOMAIN rows : ~UnderWay(m) => rows[m].reached

\* The messages read or released last, as many as the pairs remember.
LastReleased ==
    Range(SubSeq(released, IF Len(released) > PairCap THEN Len(released) - PairCap + 1 ELSE 1,
                 Len(released)))

ShowsOnlyNew == (unread' \ unread) \cap LastReleased = {}

\* A message among the PairCap last read or released is not presented as
\* unread again, however often it arrives.
ReadNotShownAgain == [][ShowsOnlyNew]_vars

\* What is left to decide about the session's queue when the session ends.
Undecided == Range(inbox) \ (Undecodable \cup {LeaseLost})

CommitsBeforeEnd ==
    (state = "Ready" /\ open = "live" /\ medium = "ok" /\ open' = "none" /\ state' = "Reconnecting")
        => Undecided \subseteq unread' \cup Range(pairs)

\* A ready session that is given up over a store that takes writes has been
\* read to its end first: every accepted message is unread in the store, or
\* was known.
SessionEndCommits == [][CommitsBeforeEnd]_vars

CommitsBeforeAnyEnd ==
    (open = "live" /\ medium = "ok" /\ health = "Healthy" /\ open' = "none" /\ state' # "Down")
        => Undecided \subseteq unread' \cup Range(pairs)

\* The same of every session the facade closes, in `close` and after a failed
\* join too: "Whenever the facade closes a session, what it holds at that
\* moment is committed first in one read" (client.rs, `drain`).
EveryCloseCommits == [][CommitsBeforeAnyEnd]_vars

\* With a store that stays writable, a daemon that stays up and a session
\* that is not refused or closed, a row that waits for nobody does not wait
\* for ever.
PendingEventuallySent ==
    <>[](medium = "ok" /\ open # "dead" /\ state \notin {"Refused", "Closed", "Down"}) =>
        \A m \in Outgoing :
            [](m \in DOMAIN rows =>
                <>(m \notin DOMAIN rows \/ rows[m].attention))

=============================================================================
