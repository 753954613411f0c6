----------------------------- MODULE IpcServer -----------------------------
(* One connection of the daemon's local server, from its hello to its end:   *)
(* requests dispatched to the session's port, the answers each is owed, the   *)
(* cancel and the deadline that race the port's own answer, the lanes to the  *)
(* writer, keepalive, and the end that releases the lease.                    *)
EXTENDS IpcWire, FiniteSets, Functions

CONSTANTS
  MaxInFlight,   \* MAX_IN_FLIGHT
  ControlLane,   \* CONTROL_LANE
  OutboxLimit,   \* OUTBOX_LIMIT
  EventLane,     \* the session's event_queue
  MaxMissed      \* keepalive's max_missed

ASSUME ServerAssumption ==
  /\ {MaxInFlight, ControlLane, EventLane, MaxMissed} \subseteq Nat \ {0}
  /\ OutboxLimit \in Nat

VARIABLES
  srv,         \* "serving", "ending" (its close decided), "over"
  closing,     \* the close frame whose control slot `end` reserved, or "none"
  flight,      \* requests handed to the port: [answered, task]
  pending,     \* requests waiting for a slot in flight, oldest first
  control,     \* the control lane
  events,      \* how many event frames the event lane holds
  outbox,      \* frames the full control lane could not take
  writer,      \* the writer task: "up", "down"
  session,     \* the port's session, and with it the lease: "open", "closed"
  probe,       \* keepalive: [outstanding, missed, sent]
  performed    \* requests the port was asked to perform

server == <<srv, closing, flight, pending, control, events, outbox, writer,
            session, probe, performed>>

ServerInit ==
  /\ srv = "serving"
  /\ closing = "none"
  /\ flight = << >>
  /\ pending = << >>
  /\ control = << >>
  /\ events = 0
  /\ outbox = << >>
  /\ writer = "up"
  /\ session = "open"
  /\ probe = [outstanding |-> 0, missed |-> 0, sent |-> 0]
  /\ performed = {}

-----------------------------------------------------------------------------
(* What a handler leaves: the lanes, and the end it decided on.               *)
Lanes == [control |-> control, outbox |-> outbox, end |-> "none"]

\* A full lane, or a frame already waiting, sends a frame to the outbox.
push(l, frame) ==
  LET queued == [l EXCEPT !.outbox = Append(@, frame)] IN
  IF l.outbox = << >> /\ writer = "down"
    THEN [l EXCEPT !.end = "Gone"]
  ELSE IF l.outbox = << >> /\ Len(l.control) < ControlLane
    THEN [l EXCEPT !.control = Append(@, frame)]
  ELSE IF Len(queued.outbox) > OutboxLimit
    THEN [queued EXCEPT !.end = "Stalled"]
  ELSE queued

response(id, code) == Frame("response", id, code)

\* Frames pushed in order until one of them ends the connection.
pushAll(l, frames) ==
  LET after[k \in 0..Len(frames)] ==
        IF k = 0 THEN l
        ELSE IF after[k - 1].end = "none" THEN push(after[k - 1], frames[k])
        ELSE after[k - 1]
  IN after[Len(frames)]

\* What `end` does first: a close takes its slot while the lane has room.
Reserves(l) ==
  IF l.end \in {"Gone", "Stalled"} \/ writer = "down" \/ Len(l.control) >= ControlLane
    THEN "none" ELSE l.end

\* A handler's lanes become the connection's; an end leaves the loop.
Commit(l) ==
  /\ control' = l.control
  /\ outbox' = l.outbox
  /\ srv' = IF l.end = "none" THEN "serving" ELSE "ending"
  /\ closing' = IF l.end = "none" THEN "none" ELSE Reserves(l)

respond(id, code) == Commit(push(Lanes, response(id, code)))
EndWith(end) == Commit([Lanes EXCEPT !.end = end])

Waiting == Range(pending)
Unanswered == {i \in DOMAIN flight : ~flight[i].answered}
Drop(f, ids) == [i \in DOMAIN f \ ids |-> f[i]]

\* The waiting requests at the positions `at`, in the order they wait in.
Retained(at) ==
  LET n == Cardinality(at)
      Ascending == {f \in Injection(1..n, at) : \A j, k \in 1..n : j < k => f[j] < f[k]}
  IN {[k \in 1..n |-> pending[f[k]]] : f \in Ascending}

\* A hash map's keys, and the tasks of a set, come in any order.
Orders(ids) == Injection(1..Cardinality(ids), ids)
Task(answered) == [answered |-> answered, task |-> "running"]

\* The oldest waiting requests fill the free slots in flight.
promote(left) ==
  LET free == MaxInFlight - Cardinality(DOMAIN left)
      n == IF Len(pending) < free THEN Len(pending) ELSE free
      taken == {pending[k] : k \in 1..n}
  IN /\ flight' = [i \in DOMAIN left \cup taken |->
                     IF i \in taken THEN Task(FALSE) ELSE left[i]]
     /\ pending' = SubSeq(pending, n + 1, Len(pending))
     /\ performed' = performed \cup taken

-----------------------------------------------------------------------------
(* The client's frames.  They are read only while nothing waits in the outbox. *)
Reading == srv = "serving" /\ outbox = << >>

HasSlot == Cardinality(DOMAIN flight) < MaxInFlight

\* Mutant of Overload: the refused request is handed to the port all the same.
OverloadPerforms(id) ==
  /\ respond(id, "Overloaded")
  /\ performed' = performed \cup {id}
  /\ UNCHANGED <<flight, pending>>

Overload(id) ==
  /\ respond(id, "Overloaded")
  /\ UNCHANGED <<flight, pending, performed>>

request(id) ==
  /\ UNCHANGED <<events, writer, session, probe>>
  /\ IF id \in Unanswered \cup Waiting
       THEN EndWith("ProtocolViolation") /\ UNCHANGED <<flight, pending, performed>>
     ELSE IF id \in DOMAIN flight
       THEN respond(id, "InvalidArgument") /\ UNCHANGED <<flight, pending, performed>>
     ELSE
       \/ respond(id, "CapabilityDenied") /\ UNCHANGED <<flight, pending, performed>>
       \/ /\ HasSlot
          /\ flight' = [i \in DOMAIN flight \cup {id} |->
                          IF i = id THEN Task(FALSE) ELSE flight[i]]
          /\ performed' = performed \cup {id}
          /\ UNCHANGED <<pending, control, outbox, srv, closing>>
       \/ /\ ~HasSlot
          /\ Len(pending) < budget.pending
          /\ pending' = Append(pending, id)
          /\ UNCHANGED <<flight, performed, control, outbox, srv, closing>>
       \/ /\ ~HasSlot
          /\ Len(pending) >= budget.pending
          /\ Overload(id)

cancel(id) ==
  /\ UNCHANGED <<events, writer, session, probe, performed>>
  /\ IF id \in Waiting
       THEN /\ pending' \in Retained({k \in DOMAIN pending : pending[k] # id})
            /\ respond(id, "CancelledBeforeDispatch")
            /\ UNCHANGED flight
     ELSE IF id \in Unanswered
       THEN /\ flight' = [flight EXCEPT ![id].answered = TRUE]
            /\ respond(id, "CancellationRaced")
            /\ UNCHANGED pending
     ELSE UNCHANGED <<flight, pending, control, outbox, srv, closing>>

pong(nonce) ==
  /\ probe' = IF probe.outstanding # 0 /\ nonce = probe.outstanding
                THEN [probe EXCEPT !.outstanding = 0, !.missed = 0] ELSE probe
  /\ UNCHANGED <<srv, closing, flight, pending, control, events, outbox, writer,
                 session, performed>>

ReadFrame ==
  /\ Reading
  /\ toServer # << >>
  /\ LET f == Head(toServer) IN
       \/ f.type = "request" /\ request(f.id)
       \/ f.type = "cancel" /\ cancel(f.id)
       \/ f.type = "pong" /\ pong(f.id)
  /\ toServer' = Tail(toServer)
  /\ UNCHANGED <<toClient, clientWrite, serverRead, tail, budget>>

\* End of stream, clean or inside a frame: the client is gone.
ReadEnd ==
  /\ Reading
  /\ toServer = << >>
  /\ clientWrite # "open"
  /\ EndWith("Gone")
  /\ UNCHANGED <<wire, flight, pending, events, writer, session, probe, performed>>

-----------------------------------------------------------------------------
(* The loop's other arms.                                                      *)

\* External: the port finishes a command, or its task panics.
TaskEnds(id) ==
  /\ srv \in {"serving", "ending"}
  /\ id \in DOMAIN flight
  /\ flight[id].task = "running"
  /\ \E outcome \in {"ok", "Internal"} : flight' = [flight EXCEPT ![id].task = outcome]
  /\ UNCHANGED <<wire, srv, closing, pending, control, events, outbox, writer,
                 session, probe, performed>>

\* A finished task's answer goes out unless a cancel or a deadline took its place.
finished(l, id) ==
  IF flight[id].answered THEN l ELSE push(l, response(id, flight[id].task))

Joined(id) ==
  /\ srv = "serving"
  /\ id \in DOMAIN flight
  /\ flight[id].task # "running"
  /\ Commit(finished(Lanes, id))
  /\ promote(Drop(flight, {id}))
  /\ UNCHANGED <<wire, events, writer, session, probe>>

\* Deadlines pass: those waiting are dropped, those in flight marked answered,
\* and each is answered, the waiting ones first.
expire(due) ==
  /\ srv = "serving"
  /\ due # {}
  /\ due \subseteq Waiting \cup Unanswered
  /\ pending' \in Retained({k \in DOMAIN pending : pending[k] \notin due})
  /\ flight' = [i \in DOMAIN flight |->
                  [flight[i] EXCEPT !.answered = @ \/ i \in due]]
  /\ \E lapsed \in Retained({k \in DOMAIN pending : pending[k] \in due}),
        marked \in Orders(due \cap DOMAIN flight) :
       LET timedOut == lapsed \o marked
       IN Commit(pushAll(Lanes, [k \in 1..Len(timedOut) |-> response(timedOut[k], "Timeout")]))
  /\ UNCHANGED <<wire, events, writer, session, probe, performed>>

\* A control permit takes the oldest frame that waited.
DrainOutbox ==
  /\ srv = "serving"
  /\ writer = "up"
  /\ outbox # << >>
  /\ Len(control) < ControlLane
  /\ control' = Append(control, Head(outbox))
  /\ outbox' = Tail(outbox)
  /\ UNCHANGED <<wire, srv, closing, flight, pending, events, writer, session,
                 probe, performed>>

\* Mutant of Missed: an unanswered probe is not counted.
MissedUncounted == probe.missed

Missed == IF probe.outstanding # 0 THEN probe.missed + 1 ELSE probe.missed

\* Keepalive's timer: the outstanding probe was missed, or the next one is due.
KeepaliveWake ==
  /\ srv = "serving"
  /\ LET missed == Missed IN
     \/ /\ probe.outstanding # 0   \* too many missed
        /\ missed >= MaxMissed
        /\ EndWith("Timeout")
        /\ probe' = [probe EXCEPT !.outstanding = 0, !.missed = missed]
     \/ /\ probe.outstanding # 0   \* missed, and the next probe is not due yet
        /\ missed < MaxMissed
        /\ probe' = [probe EXCEPT !.outstanding = 0, !.missed = missed]
        /\ UNCHANGED <<control, outbox, srv, closing>>
     \/ /\ probe.outstanding # 0 => missed < MaxMissed
        /\ probe.sent < budget.probes
        /\ probe' = [outstanding |-> probe.sent + 1, missed |-> missed,
                     sent |-> probe.sent + 1]
        /\ Commit(push(Lanes, Frame("ping", probe.sent + 1, "none")))
  /\ UNCHANGED <<wire, flight, pending, events, writer, session, performed>>

\* The event poll takes from the session no more than the lane has room for.
pump ==
  /\ srv = "serving"
  /\ writer = "up"
  /\ \E n \in 1..(EventLane - events) :
       /\ n <= budget.events
       /\ events' = events + n
       /\ budget' = [budget EXCEPT !.events = @ - n]
  /\ UNCHANGED <<toServer, toClient, clientWrite, serverRead, tail, srv, closing, flight,
                 pending, control, outbox, writer, session, probe, performed>>

\* The writer dropped the lanes; the loop learns it here.
LaneClosed ==
  /\ srv = "serving"
  /\ writer = "down"
  /\ EndWith("Gone")
  /\ UNCHANGED <<wire, flight, pending, events, writer, session, probe, performed>>

\* The server is asked to stop.
Stop ==
  /\ srv = "serving"
  /\ EndWith("ShuttingDown")
  /\ UNCHANGED <<wire, flight, pending, events, writer, session, probe, performed>>

-----------------------------------------------------------------------------
(* The end: what had finished is answered, the rest aborted, the session      *)
(* closed and its lease released, and only then the close is sent.            *)
Flushed(l) ==
  LET room == ControlLane - Len(l.control) - (IF closing = "none" THEN 0 ELSE 1)
      n == IF Len(l.outbox) < room THEN Len(l.outbox) ELSE room
  IN l.control \o SubSeq(l.outbox, 1, n)

\* Mutant of end: the close is sent before the session is closed.
endEarlyClose ==
  /\ srv = "ending"
  /\ srv' = "over"
  /\ session' = session
  /\ control' = IF closing # "none"
                  THEN Append(control, Frame("close", 0, closing)) ELSE control
  /\ outbox' = << >>
  /\ flight' = << >>
  /\ pending' = << >>
  /\ closing' = "none"
  /\ UNCHANGED <<wire, events, writer, probe, performed>>

\* `finished` pushes what `end` joins, with the reserved slot already taken.
end ==
  /\ srv = "ending"
  /\ \E order \in Orders({i \in Unanswered : flight[i].task # "running"}) :
       LET answers == [k \in DOMAIN order |-> response(order[k], flight[order[k]].task)]
           lanes == [control |-> control, outbox |-> outbox \o answers, end |-> "none"]
           flushed == IF writer = "down" THEN control ELSE Flushed(lanes)
       IN control' = IF closing # "none" /\ writer = "up"
                       THEN Append(flushed, Frame("close", 0, closing)) ELSE flushed
  /\ srv' = "over"
  /\ session' = "closed"
  /\ outbox' = << >>
  /\ flight' = << >>
  /\ pending' = << >>
  /\ closing' = "none"
  /\ UNCHANGED <<wire, events, writer, probe, performed>>

-----------------------------------------------------------------------------
(* The writer: control before events, one frame at a time.                    *)
WriterStops(how) ==
  /\ writer' = "down"
  /\ tail' = how
  /\ control' = << >>   \* the lanes go with their receivers
  /\ events' = 0

Write ==
  /\ writer = "up"
  /\ clientWrite # "gone"
  /\ \/ /\ control # << >>
        /\ Len(toClient) < SocketRoom
        /\ toClient' = Append(toClient, Head(control))
        /\ IF Head(control).type = "close" THEN WriterStops("eof")
           ELSE control' = Tail(control) /\ UNCHANGED <<events, writer, tail>>
     \/ /\ control = << >>
        /\ events > 0
        /\ Len(toClient) < SocketRoom
        /\ toClient' = Append(toClient, Frame("event", 0, "none"))
        /\ events' = events - 1
        /\ UNCHANGED <<control, writer, tail>>
     \/ /\ control = << >>   \* the lanes were dropped: nothing more will come
        /\ srv = "over"
        /\ WriterStops("eof")
        /\ UNCHANGED toClient
  /\ UNCHANGED <<toServer, clientWrite, serverRead, budget, srv, closing, flight, pending,
                 outbox, session, probe, performed>>

\* A frame not written within write_stall or by the close's grace, or written
\* to a client that is gone, ends the writer; part of the frame may have been written.
WriteStall ==
  /\ writer = "up"
  /\ Len(toClient) >= SocketRoom \/ clientWrite = "gone"
  /\ control # << >> \/ events > 0
  /\ \E how \in {"eof", "error"} : WriterStops(how)
  /\ UNCHANGED <<toServer, toClient, clientWrite, serverRead, budget, srv, closing, flight,
                 pending, outbox, session, probe, performed>>

\* The task returns: the socket goes, with whatever of the client's was unread.
Hangup ==
  /\ srv = "over"
  /\ writer = "down"
  /\ serverRead = "open"
  /\ serverRead' = "closed"
  /\ toServer' = << >>
  /\ tail' = IF toServer # << >> THEN "error" ELSE tail
  /\ UNCHANGED <<server, toClient, clientWrite, budget>>

ServerNext ==
  \/ ReadFrame \/ ReadEnd \/ DrainOutbox \/ KeepaliveWake \/ pump \/ LaneClosed \/ Stop
  \/ end \/ Write \/ WriteStall \/ Hangup
  \/ \E i \in Ids : TaskEnds(i) \/ Joined(i)
  \/ \E due \in SUBSET Ids : expire(due)
=============================================================================
