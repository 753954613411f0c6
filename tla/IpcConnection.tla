--------------------------- MODULE IpcConnection ---------------------------
(* A client library's connection and the daemon's, over one socket.          *)
EXTENDS IpcServer, IpcClient

vars == <<wire, server, client>>

Init == WireInit /\ ServerInit /\ ClientInit

Next ==
  \/ ServerNext /\ UNCHANGED client
  \/ ClientNext /\ UNCHANGED server

\* The runtime polls every ready arm and timer of the loops, and the application
\* goes on reading its session's events.  Nothing makes the port finish, the
\* daemon stop, keepalive fire or a caller give up.
Fairness ==
  /\ WF_vars(ReadFrame /\ UNCHANGED client)
  /\ WF_vars(ReadEnd /\ UNCHANGED client)
  /\ WF_vars(DrainOutbox /\ UNCHANGED client)
  /\ WF_vars(LaneClosed /\ UNCHANGED client)
  /\ WF_vars(end /\ UNCHANGED client)
  /\ WF_vars((Write \/ WriteStall) /\ UNCHANGED client)
  /\ WF_vars(Hangup /\ UNCHANGED client)
  /\ \A i \in Ids : WF_vars((\E due \in SUBSET Ids : i \in due /\ expire(due)) /\ UNCHANGED client)
  /\ WF_vars(writeLoop /\ UNCHANGED server)
  /\ WF_vars((StartDraining \/ ReadNext \/ ReadHeld \/ ReadEnds) /\ UNCHANGED server)
  /\ WF_vars((wakeAll \/ readyEnable \/ readyCheck \/ readyAwait) /\ UNCHANGED server)
  /\ \A i \in Ids : WF_vars(exchange(i) /\ UNCHANGED server)

Spec == Init /\ [][Next]_vars
FairSpec == Spec /\ Fairness

-----------------------------------------------------------------------------
Refused == {"Overloaded", "CapabilityDenied", "InvalidArgument", "CancelledBeforeDispatch"}
NotKnown == {"Internal", "Timeout", "CancellationRaced", "BackendUnavailable",
             "ShuttingDown", "ProtocolViolation"}

\* What the caller of each command sees.
CallerSees == [i \in Ids |-> IF call[i] \in {"registered", "sent"} THEN "issued" ELSE call[i]]

Promise == INSTANCE Commands WITH
  Refusals <- Refused, Unknowns <- NotKnown, phase <- CallerSees, performed <- performed

\* The two connections implement the abstract promise (connection.rs `request`,
\* `cancel`, `expire`, `finished`): a command is performed at most once, returns
\* at most once, `ok` only if performed, and a refusal means it never is.
KeepsPromise == Promise!CommandsSpec

\* The pause in reading bounds what is owed (connection.rs `outbox`): beside
\* the frame that made the first one wait, an answer per request in flight or
\* waiting and a probe per tolerated miss are all that can join it, so a limit
\* with that room never ends a connection.
OutboxNeverStalls == Len(outbox) <= 1 + MaxInFlight + budget.pending + MaxMissed

\* A client told of the end by a `close` finds the lease free (connection.rs
\* `end`): the frame is sent only after the session was closed.
CloseMeansReleased ==
  (\E k \in 1..Len(toClient) : toClient[k].type = "close") => session = "closed"

\* A session asleep in `ready` has nothing to read, or its notification is on the
\* way (session.rs `ready`, `wake_all`): no wake-up is lost.
NoLostWakeup ==
  consumer = "asleep" /\ ~woken /\ ~wakeOwed => buffer = 0 /\ ~hasEnded

\* Every call returns (connection.rs `expire`; ipc-client `register`): whatever the
\* port, the daemon or the socket does, no caller waits for ever.
CallsReturn == \A i \in Ids : i \in Outstanding ~> i \notin Outstanding
=============================================================================
