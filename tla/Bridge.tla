------------------------------- MODULE Bridge -------------------------------
(* The Claude channel bridge (apps/claude-channel, claude/channel-core): one  *)
(* loop between a host's tool calls and a session that comes and goes.  Every *)
(* session call is driven beside the session's events; in pull mode a full    *)
(* queue stops the draining and drops the call in flight, and a join or leave *)
(* dropped so is asked again later.                                           *)
(*                                                                            *)
(* The session is the IPC one: events and answers come in one stream, which   *)
(* the client reads only until its event buffer is full, so an answer behind  *)
(* more events than the buffer holds is not there yet.                        *)
EXTENDS ReplyTokens, FiniteSets

CONSTANTS
  Channels,
  ChannelOrder,   \* the channels in their order, as a sequence
  Bound,          \* the pull queue's bound, the granted event_queue
  EventBatch,     \* EVENT_BATCH
  EventBuffer     \* events the client holds before it stops reading

ASSUME BridgeAssumption ==
  /\ {Bound, EventBatch, EventBuffer, MaxTokens} \subseteq Nat \ {0}
  /\ Ttl \in Nat
  /\ ChannelOrder \in Seq(Channels) /\ Range(ChannelOrder) = Channels
  /\ \A i, j \in DOMAIN ChannelOrder : ChannelOrder[i] = ChannelOrder[j] => i = j

VARIABLES
  mode,       \* Config::delivery, "push" or "pull"
  budget,     \* how much of each thing the environment may still do; `entropy`
              \* is how many tokens there are to draw from
  lease,      \* BridgeState::lease: its epoch, 0 for none
  joined,     \* BridgeState::joined
  table,      \* BridgeState::tokens
  pending,    \* a join or leave cancelled in flight, by channel
  refused,    \* rejoin_refused
  queue,      \* the pull queue: each event with the lease it arrived under
  session,    \* Bridge::session is Some
  doing,      \* the call being driven: [at, rest], rest's head in flight
  link,       \* the daemon's end: [alive, epoch, leased, held]
  asked,      \* calls the daemon has and has not performed, oldest first
  wire,       \* events the daemon sent and the bridge has not taken
  answer,     \* of the call in flight: [code, behind], the events ahead of it
  dropped,    \* history: events the full pull queue refused
  doubt,      \* history: channels whose call the daemon answered Timeout
  firm        \* history: joins answered `ok` to the host, and not left since

vars == <<mode, budget, lease, joined, table, pending, refused, queue, session,
          doing, link, asked, wire, answer, dropped, doubt, firm>>

Things == {"direct", "broadcast", "revoke", "refusal", "deadline", "end", "call", "reply",
           "tick", "entropy"}
Idle == [at |-> "idle", rest |-> << >>]
NothingPending == [c \in Channels |-> "none"]
Op(op, of) == [op |-> op, of |-> of, heard |-> TRUE]
Frame(type, of) == [type |-> type, of |-> of]
NoAnswer == [code |-> "none", behind |-> 0]

Init ==
  /\ mode \in {"push", "pull"}
  /\ budget \in [Things -> Nat]
  /\ lease = 0
  /\ joined = {}
  /\ table = << >>
  /\ pending = NothingPending
  /\ refused = {}
  /\ queue = << >>
  /\ session = FALSE
  /\ doing = Idle
  /\ link = [alive |-> FALSE, epoch |-> 0, leased |-> FALSE, held |-> {}]
  /\ asked = << >>
  /\ wire = << >>
  /\ answer = NoAnswer
  /\ dropped = 0
  /\ doubt = {}
  /\ firm = {}

Spend(what) == budget[what] > 0 /\ budget' = [budget EXCEPT ![what] = @ - 1]

Entropy == 1..budget.entropy

history == <<dropped, doubt, firm>>
-----------------------------------------------------------------------------
(* The daemon and the connection.                                              *)
daemon == <<link, asked, wire, answer>>
bridge == <<mode, lease, joined, table, pending, refused, queue, session, doing>>

Least(a, b) == IF a < b THEN a ELSE b

\* What the client has read: no more events than its buffer takes.
Buffered == SubSeq(wire, 1, Least(EventBuffer, Len(wire)))
Answered == answer.code # "none" /\ answer.behind <= EventBuffer

\* A direct message reaches the session that holds the lease, a broadcast one
\* that joined its channel, and a revoked lease is announced to its session.
Deliver(f) ==
  /\ link.alive
  /\ wire' = Append(wire, f)
  /\ UNCHANGED <<bridge, asked, answer, history>>

DirectArrives ==
  /\ link.leased
  /\ Spend("direct")
  /\ Deliver(Frame("direct", link.epoch))
  /\ UNCHANGED link

BroadcastArrives ==
  /\ Spend("broadcast")
  /\ \E c \in link.held : Deliver(Frame("broadcast", c))
  /\ UNCHANGED link

LeaseRevoked ==
  /\ link.leased
  /\ Spend("revoke")
  /\ Deliver(Frame("notice", link.epoch))
  /\ link' = [link EXCEPT !.leased = FALSE]

\* Joins and leaves settle in the order they were asked (the session's
\* membership lock).  A call nobody waits for any more is performed unanswered.
Performed(code) ==
  /\ asked' = Tail(asked)
  /\ answer' = IF Head(asked).heard THEN [code |-> code, behind |-> Len(wire)] ELSE answer
  /\ UNCHANGED wire
  /\ UNCHANGED <<bridge, history>>

Perform ==
  /\ link.alive
  /\ asked # << >>
  /\ LET call == Head(asked) IN
     /\ Performed(IF call.op = "broadcast" /\ call.of \notin link.held THEN "refused" ELSE "ok")
     /\ link' = [link EXCEPT !.held = CASE call.op = "join" -> @ \cup {call.of}
                                        [] call.op = "leave" -> @ \ {call.of}
                                        [] OTHER -> @]
  /\ UNCHANGED budget

\* A join the session does not hold may be refused.
RefuseJoin ==
  /\ link.alive
  /\ asked # << >>
  /\ Head(asked).op = "join"
  /\ Head(asked).of \notin link.held
  /\ Spend("refusal")
  /\ Performed("refused")
  /\ UNCHANGED link

\* A cancel or a deadline that came before the dispatch: never performed.
Discard ==
  /\ link.alive
  /\ asked # << >>
  /\ ~Head(asked).heard
  /\ asked' = Tail(asked)
  /\ UNCHANGED <<bridge, history, budget, link, wire, answer>>

\* The command deadline answers a call that is still to be performed.
Deadline ==
  /\ link.alive
  /\ Spend("deadline")
  /\ \E i \in DOMAIN asked :
       /\ asked[i].heard
       /\ asked' = [asked EXCEPT ![i].heard = FALSE]
       /\ doubt' = IF asked[i].op \in {"join", "leave"} THEN doubt \cup {asked[i].of} ELSE doubt
  /\ answer' = [code |-> "timeout", behind |-> Len(wire)]
  /\ UNCHANGED <<bridge, link, wire, dropped, firm>>

\* The connection ends: what the client had read of it stays.
SessionEnds ==
  /\ link.alive
  /\ Spend("end")
  /\ link' = [link EXCEPT !.alive = FALSE]
  /\ asked' = << >>
  /\ \E k \in 0..Len(Buffered) :
       /\ wire' = SubSeq(wire, 1, k)
       /\ answer' = IF answer.behind <= k THEN answer ELSE NoAnswer
  /\ UNCHANGED <<bridge, history>>
-----------------------------------------------------------------------------
(* Events taken from the session.                                              *)
\* A direct message gets a token only under a lease; a broadcast always.
notification(toks, event, under, token) ==
  IF event.type = "broadcast" THEN mint(toks, token, BroadcastRoute(event.of))
  ELSE IF under # 0 THEN mint(toks, token, DirectRoute(event.of, under))
  ELSE toks

paused == mode = "pull" /\ Len(queue) >= Bound

room == IF mode = "pull" THEN Least(Bound - Len(queue), EventBatch) ELSE EventBatch

Bridged == [lease |-> lease, table |-> table, queue |-> queue, dropped |-> dropped]

\* `observe` of a notice, `push` of an event in pull mode, its notification in
\* push mode, with the token entropy gave it.
emit(s, f, token) ==
  IF f.type = "notice"
    THEN [s EXCEPT !.lease = IF @ = f.of THEN 0 ELSE @]
  ELSE IF mode = "push"
    THEN [s EXCEPT !.table = notification(@, f, s.lease, token)]
  ELSE IF Len(s.queue) >= Bound
    THEN [s EXCEPT !.dropped = @ + 1]
  ELSE [s EXCEPT !.queue = Append(@, [event |-> f, under |-> s.lease])]

Emitted(s) ==
  /\ lease' = s.lease
  /\ table' = s.table
  /\ queue' = s.queue
  /\ dropped' = s.dropped

\* `events(room)` and `Emit::events`: at most `room` of what was read.
Ahead == IF answer.behind > room THEN answer.behind - room ELSE 0

TakeEvents ==
  LET n == Least(room, Len(Buffered))
  IN /\ \E token \in [1..n -> IF mode = "push" THEN Entropy ELSE {1}] :
          LET after[i \in 0..n] ==
                IF i = 0 THEN Bridged ELSE emit(after[i - 1], wire[i], token[i])
          IN Emitted(after[n])
     /\ wire' = SubSeq(wire, n + 1, Len(wire))
-----------------------------------------------------------------------------
(* A call driven on the session, and what its outcome settles.                 *)
\* The next call of `rest` joins those the daemon has; after the last, the loop
\* is free again, and a session that was being opened is the bridge's.
Continue(at, rest, calls) ==
  /\ doing' = IF rest = << >> THEN Idle ELSE [at |-> at, rest |-> rest]
  /\ session' = (session \/ (at = "open" /\ rest = << >>))
  /\ asked' = IF rest = << >> \/ ~link'.alive THEN calls ELSE Append(calls, Head(rest))

\* `lost`, and an open whose session died: the joins and the queue are kept.
Dropped ==
  /\ session' = FALSE
  /\ doing' = Idle
  /\ link' = [link EXCEPT !.alive = FALSE]
  /\ asked' = << >>
  /\ wire' = << >>
  /\ answer' = NoAnswer

\* A join holds, a channel is left, a join was refused; `ended` is asked of the
\* session when the answer is an error.
Joins(c) == joined' = joined \cup {c} /\ refused' = refused \ {c}
Leaves(c) == joined' = joined \ {c} /\ refused' = refused \ {c}
Refuses(c) == joined' = joined \ {c} /\ refused' = refused \cup {c}
Same == UNCHANGED <<joined, refused>>
Settled(c) == pending' = [pending EXCEPT ![c] = "none"]
Pends(c, op) == pending' = [pending EXCEPT ![c] = op]

Call == Head(doing.rest)
Code == IF Answered THEN answer.code ELSE "ended"
Failed == Code # "ok"

\* The loop goes on with the calls that are left.
Onward(rest) ==
  /\ UNCHANGED <<lease, link, wire>>
  /\ Continue(doing.at, rest, asked)
  /\ answer' = NoAnswer

\* A re-join of `open`: one the session's end cut short is kept.
OpenAnswered ==
  /\ doing.at = "open"
  /\ UNCHANGED pending
  /\ \/ Failed /\ ~link.alive /\ Dropped /\ lease' = 0 /\ Same
     \/ Failed /\ link.alive /\ Refuses(Call.of) /\ Onward(Tail(doing.rest))
     \/ ~Failed /\ Joins(Call.of) /\ Onward(Tail(doing.rest))

\* A host's call: a leave the session's end cut short has left.
CallAnswered ==
  /\ doing.at = "call"
  /\ Onward(<< >>)
  /\ \/ /\ Call.op \in {"send", "broadcast"}
        /\ Same
        /\ UNCHANGED pending
     \/ /\ Call.op = "join"
        /\ Settled(Call.of)
        /\ joined' = IF Failed THEN joined ELSE joined \cup {Call.of}
        /\ refused' = refused \ {Call.of}
     \/ /\ Call.op = "leave"
        /\ Settled(Call.of)
        /\ IF Failed /\ link.alive THEN Same ELSE Leaves(Call.of)

\* Mutant of ResolveAnswered: a call that was answered stays pending.
ResolveAnsweredUnsettled ==
  /\ doing.at = "resolve"
  /\ UNCHANGED pending
  /\ \/ Failed /\ ~link.alive /\ Dropped /\ lease' = 0 /\ Same
     \/ /\ ~Failed \/ link.alive
        /\ Onward(Tail(doing.rest))
        /\ CASE Call.op = "join" -> IF Failed THEN Refuses(Call.of) ELSE Joins(Call.of)
             [] Call.op = "leave" -> IF Failed THEN Same ELSE Leaves(Call.of)

\* A call asked again by `resolve_pending`: its answer fixes the state.
ResolveAnswered ==
  /\ doing.at = "resolve"
  /\ \/ /\ Failed /\ ~link.alive
        /\ Dropped
        /\ lease' = 0
        /\ Same
        /\ UNCHANGED pending
     \/ /\ ~Failed \/ link.alive
        /\ Settled(Call.of)
        /\ Onward(Tail(doing.rest))
        /\ CASE Call.op = "join" -> IF Failed THEN Refuses(Call.of) ELSE Joins(Call.of)
             [] Call.op = "leave" -> IF Failed THEN Same ELSE Leaves(Call.of)

\* `drive`, biased: the answer first.
DriveAnswer ==
  /\ doing # Idle
  /\ Answered \/ ~link.alive
  /\ OpenAnswered \/ CallAnswered \/ ResolveAnswered
  /\ doubt' = IF ~link'.alive THEN {}
              ELSE IF Failed \/ Call.op \notin {"join", "leave"} THEN doubt
              ELSE doubt \ {Call.of}
  /\ firm' = IF doing.at # "call" \/ Call.op # "join" THEN firm
             ELSE IF Failed THEN firm \ {Call.of} ELSE firm \cup {Call.of}
  /\ UNCHANGED <<mode, budget, table, queue, dropped>>

\* The call is dropped and its cancel sent: an answer on its way is for nobody.
Unheard == [i \in DOMAIN asked |-> [asked[i] EXCEPT !.heard = FALSE]]

\* Mutant of Cancelled: nothing is kept of a host's leave.
CancelledUnkept ==
  /\ IF Call.op = "join" THEN Pends(Call.of, "join") ELSE UNCHANGED pending
  /\ UNCHANGED <<joined, refused>>

Cancelled ==
  /\ CASE Call.op \in {"join", "leave"} -> Pends(Call.of, Call.op)
       [] OTHER -> UNCHANGED pending
  /\ joined' = IF doing.at = "open" THEN joined \ {Call.of} ELSE joined
  /\ UNCHANGED refused

\* Mutant of DriveDrain: the call is awaited alone.
DriveDrainNothing == FALSE /\ UNCHANGED vars

\* Events are taken beside the call; the one that fills the pull queue drops it.
DriveDrain ==
  /\ doing # Idle
  /\ ~Answered /\ link.alive
  /\ Buffered # << >>
  /\ TakeEvents
  /\ UNCHANGED <<mode, budget, link, doubt, firm>>
  /\ \/ /\ ~paused'
        /\ answer' = [answer EXCEPT !.behind = Ahead]
        /\ UNCHANGED <<joined, refused, pending, session, doing, asked>>
     \/ /\ paused'
        /\ answer' = NoAnswer
        /\ Cancelled
        /\ Continue(doing.at, IF doing.at = "open" THEN Tail(doing.rest) ELSE << >>, Unheard)
-----------------------------------------------------------------------------
(* The loop.                                                                   *)
\* What is pending is asked again before anything else, once a session is there
\* and the queue has room.
Owes == session /\ ~paused /\ pending # NothingPending
Free == doing = Idle /\ ~Owes

In(set) == Filter(ChannelOrder, set)
Wanting(op) == {c \in Channels : pending[c] = op}

\* Mutant of open: what was pending is forgotten with the session it was asked of.
openForgets ==
  /\ Free /\ ~session
  /\ link' = [alive |-> TRUE, epoch |-> link.epoch + 1, leased |-> TRUE, held |-> {}]
  /\ lease' = link'.epoch
  /\ pending' = NothingPending
  /\ LET joins == In(joined)
     IN Continue("open", [i \in DOMAIN joins |-> Op("join", joins[i])], << >>)
  /\ wire' = << >> /\ answer' = NoAnswer /\ doubt' = {}
  /\ UNCHANGED <<mode, budget, joined, refused, table, queue, dropped, firm>>

\* `open`: a fresh claim; what was pending is folded into the joins, which are
\* all taken again.  An open refused changes nothing here.
open ==
  /\ Free /\ ~session
  /\ link' = [alive |-> TRUE, epoch |-> link.epoch + 1, leased |-> TRUE, held |-> {}]
  /\ lease' = link'.epoch
  /\ joined' = (joined \cup Wanting("join")) \ Wanting("leave")
  /\ refused' = refused \ Wanting("leave")
  /\ pending' = NothingPending
  /\ LET joins == In(joined')
     IN Continue("open", [i \in DOMAIN joins |-> Op("join", joins[i])], << >>)
  /\ wire' = << >> /\ answer' = NoAnswer /\ doubt' = {}
  /\ UNCHANGED <<mode, budget, table, queue, dropped, firm>>

resolve_pending ==
  /\ doing = Idle /\ Owes
  /\ UNCHANGED <<mode, budget, lease, joined, table, pending, refused, queue, link, wire,
                 answer, history>>
  /\ LET asking == In({c \in Channels : pending[c] # "none"})
     IN Continue("resolve", [i \in DOMAIN asking |-> Op(pending[asking[i]], asking[i])], asked)

\* `pump`: nothing is taken while the queue is full, so an ended session is then
\* not noticed either.
pump ==
  /\ Free /\ session /\ ~paused
  /\ Buffered # << >>
  /\ TakeEvents
  /\ UNCHANGED <<mode, budget, joined, pending, refused, session, doing, link, asked, doubt,
                 firm>>
  /\ UNCHANGED answer

lost ==
  /\ Free /\ session /\ ~paused
  /\ ~link.alive /\ Buffered = << >>
  /\ Dropped
  /\ lease' = 0
  /\ doubt' = {}
  /\ UNCHANGED <<mode, budget, joined, table, pending, refused, queue, dropped, firm>>
-----------------------------------------------------------------------------
(* The host's tool calls.  While the queue is full those that need the session *)
(* are refused at once.                                                        *)
hostRest == <<mode, lease, queue, link, wire, answer, dropped, doubt>>

\* `run` of a call on the session.
Drives(call) ==
  /\ UNCHANGED hostRest
  /\ Continue("call", <<call>>, asked)

CallSession ==
  /\ Free /\ ~paused /\ session
  /\ Spend("call")
  /\ \E call \in [op : {"join", "leave", "broadcast"}, of : Channels, heard : {TRUE}]
                \cup {Op("send", 0)} :
       /\ Drives(call)
       /\ firm' = IF call.op = "leave" THEN firm \ {call.of} ELSE firm
  /\ UNCHANGED <<joined, table, pending, refused>>

\* Without a session a leave is settled here; any other call is refused.
LeaveAway ==
  /\ Free /\ ~paused /\ ~session
  /\ Spend("call")
  /\ \E c \in Channels : Leaves(c) /\ Settled(c) /\ firm' = firm \ {c}
  /\ UNCHANGED <<hostRest, table, session, doing, asked>>

\* `reply`: the token's route becomes a send or a broadcast.
Reply ==
  /\ Free /\ ~paused
  /\ Spend("reply")
  /\ table' = expire(table)
  /\ \E t \in Live(table) :
       IF resolve(table, t, lease, joined) = "Route" /\ session
         THEN LET route == RouteOf(table', t)
              IN Drives(Op(IF route.kind = "direct" THEN "send" ELSE "broadcast", route.to))
         ELSE UNCHANGED <<hostRest, session, doing, asked>>
  /\ UNCHANGED <<joined, pending, refused, firm>>

\* `receive`: the first events of the queue, each with its token, as if they had
\* arrived under the leases `under`.
Received(n, under) ==
  /\ \E token \in [1..n -> Entropy] :
       LET minted[i \in 0..n] ==
             IF i = 0 THEN table
             ELSE notification(minted[i - 1], queue[i].event, under[i], token[i])
       IN table' = minted[n]
  /\ queue' = SubSeq(queue, n + 1, Len(queue))
  /\ UNCHANGED <<mode, budget, lease, joined, pending, refused, session, doing, daemon, history>>

\* Mutant of receive: the tokens are minted under the lease held now.
receiveUnderCurrent ==
  /\ Free /\ mode = "pull"
  /\ \E n \in 1..Len(queue) : Received(n, [i \in 1..n |-> lease])

\* Each event's token is minted now, under the lease the event arrived under.
receive ==
  /\ Free /\ mode = "pull"
  /\ \E n \in 1..Len(queue) : Received(n, [i \in 1..n |-> queue[i].under])

Tick ==
  /\ Spend("tick")
  /\ table' = Older(table)
  /\ UNCHANGED <<mode, lease, joined, pending, refused, queue, session, doing, daemon, history>>

Next ==
  \/ DirectArrives
  \/ BroadcastArrives
  \/ LeaseRevoked
  \/ Perform
  \/ RefuseJoin
  \/ Discard
  \/ Deadline
  \/ SessionEnds
  \/ DriveAnswer
  \/ DriveDrain
  \/ open
  \/ resolve_pending
  \/ pump
  \/ lost
  \/ CallSession
  \/ LeaveAway
  \/ Reply
  \/ receive
  \/ Tick

\* The loop never rests while one of its futures is ready, the daemon performs
\* what it was asked, and the host takes from a queue that is full.
Fairness ==
  /\ WF_vars(DriveAnswer)
  /\ WF_vars(DriveDrain)
  /\ WF_vars(Perform)
  /\ WF_vars(open)
  /\ WF_vars(resolve_pending)
  /\ WF_vars(pump)
  /\ WF_vars(lost)
  /\ WF_vars(paused /\ receive)

Spec == Init /\ [][Next]_vars /\ Fairness
-----------------------------------------------------------------------------
\* With nothing pending and no call answered by its deadline, the bridge counts
\* as joined exactly the channels its session holds at the daemon: whatever was
\* cancelled, performed late, asked again or cut off by an end.
JoinedAgrees ==
  session /\ link.alive /\ doing = Idle =>
    \A c \in Channels : pending[c] = "none" /\ c \notin doubt => (c \in joined <=> c \in link.held)

\* As the loop reads the daemon's answers: a live daemon that did not confirm a
\* leave holds the join, so a channel counted as joined is held.
JoinedIsHeld ==
  session /\ link.alive /\ doing = Idle =>
    \A c \in joined : pending[c] = "none" => c \in link.held

\* A join the host was told of outlives the sessions: until the host leaves it,
\* the channel is joined, to be joined, or reported as refused.
JoinsOutliveSessions == firm \subseteq joined \cup Wanting("join") \cup refused

\* A reply to a direct message is only ever sent on the session under whose
\* lease that message arrived, however late the host took it from the queue.
ReplyStaysInItsLease ==
  \A i \in DOMAIN asked : asked[i].op = "send" /\ asked[i].of # 0 => asked[i].of = link.epoch

\* A call in flight ends, even when its answer is behind more events than the
\* client buffers.
CallsEnd == doing # Idle ~> doing = Idle

\* What was cancelled in flight is settled, once a session stays.
PendingSettles == pending # NothingPending ~> pending = NothingPending
=============================================================================
