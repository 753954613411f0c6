# InterWeave in TLA+

InterWeave carries messages between peers over libp2p. One profile has one
transport runtime. Local clients reach it in process or over IPC, claim an
endpoint for direct messages and join channels for broadcasts. The human client
keeps what a person sends and receives in a store of its own. The Claude channel
bridges a coding session to the daemon.

This directory models the parts where state is shared between tasks, survives a
restart or has a bound, and checks and proves properties of them. Every
definition is translated from the Rust source. `PROJECT.json` gives the source
lines of each one, the hazards each property is meant to catch, and the reason
for every part that is left out.

## 1. Parts and modules

| Part | Source (under `src/crates/`) | Modules | Actions |
|---|---|---|---|
| Endpoint leases | `transport/runtime/src/endpoint_registry.rs`, `endpoint_queue.rs`, `transport/libp2p/src/runtime/direct.rs` | `EndpointLeases` | configure, claim, release, revoke, enable, disable, set default, take notices, drain, deliver |
| Direct inbound | `transport/runtime/src/direct_inbound.rs`, `dedup.rs` | `DirectInbound`, `DedupCache` | receive a request, trust change, begin drain, time |
| Dial admission | `transport/runtime/src/connection_manager.rs`, `connection_policy.rs` | `DialAdmission` | the steps of `admit`, ticket drop, settle, publish, trust, shutdown |
| Reconnect schedule | `connection_manager.rs`, `transport/libp2p/src/runtime/dialing.rs`, `mod.rs` | `Retries` | tick, success, the kinds of failure, relay up and down, network change, trust |
| Held sends and path race | `transport/libp2p/src/runtime/held_sends.rs`, `path_race.rs`, `commands.rs` | `HeldSends` | send, dial, establish, fail, close, drain, timers, trust, shutdown |
| Broadcast plane | `transport/runtime/src/broadcast_inbound.rs`, `session_queue.rs`, `ingress.rs`, `transport/libp2p/src/runtime/broadcast.rs` | `Broadcast`, `DedupCache` | configure, join, leave, publish, receive, drain a session, trust, begin drain |
| Session membership | `transport/composition/src/session.rs`, `transport/libp2p/src/runtime/handle.rs` | `Membership` | join, leave, cancel at any await, close, drop, run a command |
| Human store and client | `human/store/src/store.rs`, `human/transport-client/src/client.rs`, `problem.rs`, `human/app-core/src/facade.rs` | `HumanStore`, `HumanClient` | the person's commands, the steps of a turn, failure of the medium, crash and start |
| IPC, both halves | `local/ipc-server/src/connection.rs`, `frames.rs`, `keepalive.rs`, `local/ipc-client/src/connection.rs`, `session.rs` | `IpcWire`, `IpcServer`, `IpcClient`, `IpcConnection`, `Commands` | request, cancel, deadline, completion, pushed events, keepalive, read, write, end, sleep and wake |
| Reachability | `transport/runtime/src/reachability.rs`, `transport/libp2p/src/runtime/autonat_driver.rs`, `candidate_scope.rs`, and the vendored `src/third_party/libp2p-autonat` | `Reachability`, `AutonatDriver` | listeners, dials, probes and their results, expiry, timer |
| Relay reservations | `transport/runtime/src/relay.rs`, `transport/libp2p/src/runtime/relay_driver.rs` | `Reservations` | candidates, request, acceptance, failure, release, backoff |
| Both in one task | `transport/libp2p/src/runtime/network_change.rs`, `commands.rs`, `mod.rs` | `Connectivity` | the two drivers, network change, trust |
| Overlays | `config/profile-config/src/persist.rs`, `trust_overlay.rs`, `endpoint_overlay.rs`, `transport/composition/src/runtime.rs` | `TrustOverlay`, `EndpointOverlay`, `OverlayAdmin`, `Overlays` | set, the steps of an atomic write, failure of each, crash, loss of power, start |
| Claude channel | `claude/channel-core/src/bridge.rs`, `reply_token.rs`, `pull.rs`, `src/apps/claude-channel/src/serve.rs` | `ReplyTokens`, `Bridge` | open, re-join, call, cancel, receive, reply, session end |

`Maps` holds finite maps. Each component has an `MC*` module that instantiates
it for TLC, and eight `*Proofs` modules hold the theorems. The exact files and
lines of every definition are under "map" in `PROJECT.json`.

How the parts interact, and which modules compose them:

- The Swarm task runs the endpoint leases, direct inbound, the schedule, held
  sends, connectivity and the broadcast plane, one event at a time. Nothing
  interleaves inside an operation.
- `DirectInbound` adds the receiving side to the leases. That it implements
  `LeaseSpec` is proved.
- `DialAdmission` is shared between threads: they ask the gate, against a
  snapshot, while the manager settles and publishes.
- `Membership` drives `Broadcast` through a bounded command channel. A session's
  calls may be cancelled at every await. It implements `Broadcast`'s `Spec`.
- `IpcConnection` joins the server's and the client's connection by two bounded
  socket directions. Together they implement `Commands`, the abstract promise of
  a command: performed at most once, answered at most once, `ok` only if it was
  performed, refused only if it never is.
- `Connectivity` runs the reachability manager and the reservation manager in the
  one task that feeds the verdict of the first to the second.
- `Overlays` instantiates `OverlayAdmin` twice, for trust and for endpoints, with
  the merging and normalising rules of each.
- `Bridge` is a client of a daemon that may end its session, time out a call or
  answer behind a full event buffer.
- `HumanClient` drives `HumanStore`. They share a process and can crash between
  any two steps.

Correspondence of steps:

- An action of a Swarm-task module is one turn of the `select!` loop: a whole
  command, event or timer.
- In `DialAdmission` each atomic operation of `admit` (load, read of a flag, each
  reservation, second read, grant) is an action, and so is each step of a
  publication. A snapshot's revision is the flag `fresh`, since a replaced
  snapshot never becomes current again.
- In `Membership` an action ends where the code awaits. `Cancel` drops the caller
  at that point, and the drop guards run in the same action.
- In the IPC modules an action is one arm of a loop's `select!`, or one call of
  the caller's task between two awaits.
- In `OverlayAdmin` an action is one call on the file system. Between two of them
  the process may crash or the power fail.
- In `HumanClient` a turn of the facade is split at the calls to the transport.
- In `Bridge` the loop drives one call at a time. An action is one wake-up of the
  loop, or one step of the daemon.

Abstractions of data:

- Messages are model values with a key and a fingerprint of their content.
- Times are small naturals. A deadline is "due", "later" or "none" where only the
  order is used.
- Errors are one representative per class (`problem.rs`, the IPC error codes).
- A peer of `Retries` has at most two direct and one circuit address, a peer of
  `HeldSends` at most one of each. Every circuit goes through one relay.
- GossipSub, the libp2p Swarm, the AutoNAT client, SQLite and the file system are
  external: they deliver, repeat, lose and fail as they like, within what the code
  relies on.

Modules also hold mutated operators that show the properties can fail. A comment
names what each one changes. No specification uses them.

## 2. Runs

| Run | Instance | Distinct states | Shows |
|---|---|---|---|
| `direct` | 2 endpoints, 2 sessions, 1 peer, 3 requests, cache of 1 | 686,000 | leases are exclusive, mail is not inherited, every end of a lease is announced, delivery at most once while remembered |
| `dial` | 2 gates, 2 addresses, room for 1 quarantine; scenes "race" and "revocation" | 4,195,000 | counters are exact in every interleaving; an identity mismatch always finds room; no grant under a replaced policy |
| `retries` | a peer with two direct addresses and one with a direct and a circuit address, 1 entry, 2 dials | 383,000 | claims belong to attempts, only owners return them, and a tick that dials on after a failed candidate keeps its claim |
| `held_sends` | scene "ways": 2 sends to a relayed peer; scene "ceilings": 4 sends to 2 peers | 240,000 | held and written sends stay under both ceilings, none is given up early, and each one ends |
| `broadcast` | 2 sessions, 2 channels, command channel of 2; scenes "messages" and "calls" | 708,000 | one delivery per session; an accepted message reaches all joined sessions; no join is lost or left over, whatever is cancelled; the mesh follows the registry |
| `human` | scenes "sends", "refusals", "reads" and "ends" | 176,000 | nothing pending is lost, honest about reach, eventually sent; a session is read to its end; what was read is not shown as new |
| `ipc` | five budgets of commands, cancels, events, probes and ends | 710,000 | the promise of `Commands`, the outbox bound, release before `close`, no lost wake-up, every call returns |
| `connectivity` | six scenarios: Evidence, Calm, Claims, RelaysOnly, Both, Return | 346,000 | what is advertised is true, reservations agree with listeners and verdict, the horizon is exact, a reachable host finds out |
| `overlays` | trust and endpoints, failing writes, crashes, power losses, an edited configuration | 460,000 | what is kept is on file, `ok` is in force and durable, every start loads |
| `bridge` | pull: Cancels, Late, Replies; push: Cancels, Replies | 658,000 | joined agrees with the daemon, joins outlive sessions, a reply stays in its lease, calls end, doubts are settled |
| `stranded_claim` | as `retries` | | a finding of section 5 |
| `human_close` | as `human`, scene "ends" | | a finding of section 5 |

A scene, budget or scenario is chosen in the initial state and keeps the parts of
one component's behaviour apart that together are too large. Each still has every
race within its part. Which actions each one allows is stated in the `MC` module.

- `human`: "sends" has two messages over a medium that may fail, "refusals" one
  over a store that refuses writes and goes on, "reads" three messages that are
  read, released and sent again with a memory of two, and "ends" the two ways a
  session's queue can meet the end of its session. `PendingEventuallySent` is
  about the first two; the others have nothing to send.
- `held_sends`: in "ways" time passes, trust changes and dials over both routes
  race, with one dial per route; the caller of one send may give up, and a
  draining node keeps its policy. In "ceilings" time stands still, so the liveness
  property says nothing there; a peer may have 2 sends out, the node 3, and the
  fourth is refused.
- `broadcast`: in "calls" a session has two channels only while no other session
  has one, and otherwise at most one.

Why the bounds are enough: the ceilings (queues, cache, notices, entries, dials,
sends, connections, command channel, socket, outbox, event buffer) are so low that
each is reached. Two sessions, gates or sends are the fewest that can compete. Two
contents under one id give the conflict, and two keys give the eviction. The
clocks run past the longest lifetime in the model, so everything can expire.
`HeldSends` accepts a send only while its horizon fits under the end of the clock,
so the clock's bound cannot strand one.

What they leave out: the dedup cache of `direct` and the retry table of `retries`
hold one entry, so which of several entries a full one drops is not exercised. No
property checked there depends on it: `AtMostOnce` speaks of the keys the cache
still has, and a dropped retry entry takes its claim along.

Symmetry is used only in runs without liveness, over sets that no definition
tells apart. Deadlock checking is off where the model's clock or its finite supply
of epochs, messages or budget can run out.

## 3. Fairness

- `HeldSends`: weak fairness of the clock and of `HeldDue`. The `select!` loop
  always waits for the earliest horizon of a held send.
- `HumanClient`: weak fairness of a turn's steps and of an answer, strong fairness
  of deadlines. The root runs turns in a loop, and the transport answers every
  request by its deadline. Strong fairness of a successful open, join and send is
  an assumption on the surroundings: what is tried for ever succeeds now
  and then. `PendingEventuallySent` also assumes a medium and a session that stay
  up, as its left side says.
- `IpcConnection`: weak fairness of each arm and timer of the two loops. Nothing
  makes the port finish, the daemon stop, keepalive fire or a caller give up.
- `Connectivity`: time passes and the loop's timer fires. The AutoNAT client draws
  servers at random, so it passes over none for ever. `FindsItself` is stated for
  a calm world, where dials and tests succeed.
- `Bridge`: weak fairness of the loop's steps and of the daemon performing what it
  was asked. That the host keeps calling `receive` while the queue is full, and
  that a lost daemon comes back, are assumptions on the surroundings.
- The other specifications state no fairness, and only safety is checked.

## 4. Proofs

The theorems hold for every value of the constants: any number of sessions,
gates, channels, requests, files or messages, and any bound. Each component has
one inductive invariant. TLC checked it on the run's instance before it was
proved. The proof has one step per action, and the theorems follow from it.

| Module | Theorem | Statement |
|---|---|---|
| `EndpointLeasesProofs` | `LeaseInvariant` | `LeaseSpec => []LeaseInv` |
| | `LeasesAreExclusive` | one lease per session, epochs are not shared, leases sit only on usable endpoints |
| | `QueuesFollowLeases` | a queue is open exactly while its endpoint is leased |
| | `MailIsNeverInherited` | what is queued was admitted under the lease in force |
| | `NoticesNameEndedLeases` | notices are for ended leases, in order, once each, and bounded |
| | `DefaultIsUsable` | the default endpoint is configured and enabled |
| | `LeasesEndAnnounced` | no step ends a lease silently |
| | `AdmissionImplementsLeases` | `DirectSpec => LeaseSpec` |
| | `AdmissionKeepsLeases` | so the lease properties `direct` checks hold while requests arrive |
| | `DeliveredAtMostOnce` | no queue takes a message again while its key is remembered |
| `MembershipProofs` | `BroadcastInvariant` | `Spec => []BroadcastInv`, for the broadcast plane by itself |
| | `MeshAlwaysFollows` | mesh, topic map, registry and queues move together |
| | `CeilingHolds` | never more subscriptions than allowed |
| | `AcceptedAlwaysReaches` | an accepted message is the newest in the queue of every session joined, the publisher's aside |
| | `OnceForEachSession` | no queue holds a message twice within its lifetime, given `CacheHoldsAll` |
| | `MemberInvariant` | `MemberSpec => []MemberInv` |
| | `JoinsAreAccountedFor` | no join is left over without a session, a guard or a command that knows of it |
| | `AnsweredJoinsAlwaysHold` | a join that was answered and not left is held |
| | `SessionsImplementPlane` | `MemberSpec` implements `Broadcast`'s `Spec` |
| `DialAdmissionProofs` | `AdmissionInvariant` | the inductive invariant of the gate |
| | `CountersAreExact` | each counter equals the reservations under way |
| | `MismatchesAreRecorded` | every granted dial can have its address quarantined |
| | `GrantsFollowThePolicy` | no step grants what the snapshot in force refuses |
| `IpcConnectionProofs` | `ConnectionInvariant`, `CommandsAreTracked` | the inductive invariant, in two parts |
| | `OutboxIsBounded` | the outbox stays within what the pause in reading lets through |
| | `WakeupsAreNotLost` | a sleeper with something to read has its wake-up on the way |
| | `CloseFollowsRelease` | a `close` is on its way only once the session was closed |
| | `ConnectionKeepsPromise` | both connections together implement `Commands` |
| `OverlayAdminProofs` | `OverlayInvariant` | the inductive invariant of a set, for every overlay that keeps `OverlayLaws` |
| `OverlaysProofs` | `OverlaysInvariant` | trust and endpoints keep the laws, and so the invariant |
| | `KeptIsAlwaysOnFile` | what the driver keeps is what the next start reads |
| | `OkIsAlwaysKept` | an `ok` is in force and on file; one that wrote survives a loss of power |
| | `NextStartAlwaysLoads` | a crash at any step leaves a file the next start loads |
| `HumanClientProofs` | `OutboundInvariant` | the inductive invariant of what a person sends |
| | `PendingIsNeverLost` | a pending message stays until it was taken in or withdrawn |
| | `ReachIsHonest` | a message that reached its peer is said to, unless an earlier process sent it with no attempt on record |
| `BridgeProofs` | `JoinedAlwaysAgrees` | what the bridge counts as joined is what its session holds, unless it is pending or was answered by a deadline |
| | `JoinsAlwaysOutlive` | a join the host was told of outlives the sessions |
| | `RepliesStayInTheirLease` | a reply is asked only of the session its message arrived on |

The invariants, and why each strengthening is needed:

- `LeaseInv`. That mail is not inherited needs that queues and leases have the
  same domain, or a claim could find an old queue. That notices are true needs
  `NoticesOlder`: what a session is still owed is about leases older than the one
  it holds, so the next notice keeps the order.
- `RememberInv`, for at-most-once delivery. An admitted key is in the cache as of
  its last admission, unless its lifetime passed or the bound pushed it out. The
  order of the cache plays no part: whichever keys `record_accepted` evicts, the
  argument only needs that eviction is recorded.
- `BroadcastInv`. What is desired or joined is within the ceiling, so a refused
  join has nothing to take back from the mesh.
- `OnceInv`, for one delivery per session. What is queued is remembered as of then
  or as of a later acceptance, until its lifetime passed. So whatever is appended
  comes a lifetime after the copies before it. `CacheHoldsAll` says the cache has
  room for every key, as in the run: one that overflows forgets early, and the
  code promises nothing then.
- `MemberInv`. What the registry says of a session is judged by what it will have
  come to once the commands queued have been run (`Stays`). A cancelled caller
  changes who waits for a command, not what the command will do.
- `AdmissionInv`. Which gate holds which counter follows from where it stands in
  `admit` (`HeldOK`). Room for a quarantine is `RoomOK`: gates whose outcome was
  reserved against the snapshot in force, plus live quarantines, fit into the
  policy's addresses. Quarantines the published snapshot does not show yet are
  paid for by outcomes that were settled and not yet returned.
- IPC. `SlotsOK` and `OwedOK` bound the outbox by the requests in flight and
  waiting. `WakeOK` follows a notification from the reader to the sleeper. `FlowOK`
  says a command is new, open or performed, in one place only, and that every
  frame owed to the client remains true whatever is performed later. The
  refinement needs `FlowOK`: a refusal is only owed for what is not open.
- `OverlayInv`. It relates, at each call on the file system, the file a reader
  sees, the file that survives a loss of power, and the overlay the driver keeps.
  `OverlayLaws` collects what it needs of an overlay: normalising is idempotent,
  and a set that is not refused does what was asked and leaves a document that can
  be read, fits its bounds and is normal. `OverlaysProofs` proves the laws for
  both overlays.
- `OutInv`. A message is in one place. What a row, an undo or a turn under way
  says of a message agrees with what the store has and with what the peer saw. The
  ghosts `unrecorded` and `forgotten` follow the one exception: a store that
  refuses the record of an attempt without degrading lets the message leave, this
  process still knows (`unrecorded`), and the next one does not (`forgotten`).
- `BridgeInv`. That joined agrees with the daemon when the loop is idle needs what
  is true while a call is driven. `AgreeOK` says that the call being driven is the
  last the daemon has or is answered, that whatever was asked and is no longer
  heard is pending or in doubt, what the answer on its way says of what is held,
  and that every other channel agrees, counting the re-joins still to come of a
  session being opened. `DoingOK` says which calls the loop drives and that a
  host's call starts with nothing pending. `FirmOK` adds that no leave is pending
  or driven for a join the host was told of and did not leave. For replies,
  `RouteOK` says that an event on the wire belongs to the daemon's last lease, and
  a queued event or a token to the lease it came under, so a route that resolves
  under the lease in force goes to its own session.

Some lemmas of `IpcConnectionProofs` count requests and frames. What they need of
cardinality and of induction over the naturals is the conjunction `Counting`,
which they take as an assumption; `CountingHolds` proves it from the library at
the end of the module, and every theorem there is stated without it.

The assumptions are those the modules name, each evaluated by TLC on the run's
instance: `LeaseAssumption`, `DirectAssumption`, `DedupAssumption`,
`BroadcastAssumption`, `MembershipAssumption`, `AdmissionAssumption`,
`WireAssumption`, `ServerAssumption`, `OverlayAssumption`, `ClientAssumption`,
`StoreAssumption`, `DispatchAssumption` and `BridgeAssumption`. They say that
configurations are well formed, bounds are positive and markers are not members. `DispatchAssumption` is
about the transport: after a request has left, it gives no error but those
`may_have_reached` of `problem.rs` knows.

Only model-checked:

- All liveness (`HeldSendsEnd`, `PendingEventuallySent`, `CallsReturn`,
  `FindsItself`, `CallsEnd`, `PendingSettles`): the prover does not reach fairness.
- `SessionEndCommits` and `ReadNotShownAgain` of the human client. One turn takes
  in a whole batch by a fold, and what a fold computes needs induction over data.
- The safety properties of `Retries`, `HeldSends` and `Connectivity`.

## 5. Findings

- `stranded_claim`. A scheduled retry that goes through a relay dials with a
  ticket that does not own the schedule's claim. If that dial fails later, the
  entry is scheduled again as claimed, and no tick offers the peer until another
  connection to it ends the entry (`connection_manager.rs:1484`). The field's
  documentation says a claim means an attempt under way. `retries` shows that
  peers reached only directly are not affected.
- `human_close`. `close()` of the human client (`client.rs:628`), and a join that
  fails after the session was opened, close the session without reading what it
  holds. The documentation of `drain` (`client.rs:506`) says that is committed
  first whenever the facade closes a session. `human` shows that the session's own
  end is read to the last message.

Four other places where a comment says more than the code does. Each statement is
a definition in its module. Named in place of the properties of the configuration
given, TLC shows how it fails.

- `ErrsOnlyTowardMay` (`MCHumanClient.cfg`). The facade's API says "the store
  records an attempt BEFORE the transport call, so it errs only toward "may""
  (`human/client-api/src/lib.rs:165`). A write the store refuses without degrading
  does not keep the message from leaving (`client.rs`, `attempt`), so after a
  restart a message that reached its peer may be shown as never sent.
- `OverfullQueueRefuses` (`MCMembership.cfg`). A session queue over a lowered
  bound drops its oldest event at the next push (`session_queue.rs:218`). The
  documentation of `set_bound` (line 172) says it refuses pushes until it has
  drained.
- `OkSurvives` (`MCOverlays.cfg`). An `ok` for a set that changed nothing is given
  without a write, so a loss of power can take back an earlier write whose sync
  failed (`composition/src/runtime.rs:1379`).
- `JoinedIsHeld` (`MCBridge.cfg`). A leave that times out in the daemon may still
  be performed (`expire` in the IPC `connection.rs:467`), and the channel then
  counts as joined (`serve.rs:896`).

One remark on a bound: the comment on `OUTBOX_LIMIT` in the IPC server's
`connection.rs` counts an answer per request in flight or waiting and a probe per
tolerated miss. It omits the frame whose answer pauses reading. `OutboxIsBounded`
has that 1. The room of 16 in the constant covers it while at most 15 misses are
tolerated.

## 6. Not modelled

`PROJECT.json` lists every part with its reason. The larger ones are the peer
paths and the event queue of the runtime, hole punching, the endpoint directory,
the discovery manager and its providers, and the shutdown of the composed runtime.
The user interfaces, codecs, API types, identity derivation and command lines have
no state that a model would explore.

Within the modelled parts: lengths of backoff and jitter, reports and counters,
health texts, the wording of errors, the parser of the configuration, and the
choice among the addresses of one relay.
