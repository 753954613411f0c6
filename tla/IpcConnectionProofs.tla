------------------------ MODULE IpcConnectionProofs -------------------------
(***************************************************************************)
(* Why the two ends of a local connection keep the promise of Commands,    *)
(* for any number of commands, any lane, queue and socket size.            *)
(*                                                                         *)
(* A command's request is in at most one place: not yet sent (`Fresh`), on *)
(* its way or waiting (`Open`), or handed to the port (`performed`). Every *)
(* answer owed to the client says something that stays true of that place: *)
(* `ok` only of what was performed, a refusal only of what is neither      *)
(* performed nor open. The other invariants bound the outbox, order the    *)
(* close after the release of the session, and keep a sleeping session's   *)
(* wake-up on its way.                                                     *)
(***************************************************************************)
EXTENDS IpcConnection, TLAPS

Answers == {"ok"} \cup Refused \cup NotKnown
Types == {"request", "cancel", "pong", "finish", "response", "event", "ping", "close"}
Frames == {f \in [type : Types, id : Nat, code : {"none"} \cup Answers] :
             /\ f.type = "response" => f.code \in Answers
             /\ f.type = "close" => f.code \in NotKnown}
Tasks == [answered : BOOLEAN, task : {"running", "ok", "Internal"}]
Ends == {"none", "Gone", "Stalled"} \cup NotKnown

-----------------------------------------------------------------------------
(* The invariants. *)

\* The requests among the frames `q`.
Asked(q) == {q[k].id : k \in {j \in DOMAIN q : q[j].type = "request"}}

WireTypeOK ==
  /\ toServer \in Seq(Frames) /\ toClient \in Seq(Frames)
  /\ Asked(toServer) \subseteq Ids
  /\ budget \in [pending : Nat, calls : Nat, events : Nat, probes : Nat]

FlightTypeOK ==
  /\ DOMAIN flight \subseteq Ids /\ IsFiniteSet(DOMAIN flight)
  /\ flight = [i \in DOMAIN flight |-> flight[i]]
  /\ \A i \in DOMAIN flight : flight[i] \in Tasks
  /\ pending \in Seq(Ids)
  /\ performed \subseteq Ids

LaneTypeOK ==
  /\ srv \in {"serving", "ending", "over"}
  /\ closing \in {"none"} \cup NotKnown
  /\ control \in Seq(Frames) /\ outbox \in Seq(Frames)

ProbeTypeOK == probe \in [outstanding : Nat, missed : Nat, sent : Nat]

ClientTypeOK ==
  /\ call \in [Ids -> {"idle", "registered", "sent", "abandoned"} \cup Answers]
  /\ out \in Seq(Frames) /\ Asked(out) \subseteq Ids
  /\ ended \in {"none"} \cup NotKnown
  /\ provisional \in BOOLEAN
  /\ echo \in Nat
  /\ buffer \in Nat

IpcTypeOK == WireTypeOK /\ FlightTypeOK /\ LaneTypeOK /\ ProbeTypeOK /\ ClientTypeOK

\* The requests in flight and waiting are within their limits, are never the
\* same, and one waits only for want of a slot.
SlotsOK ==
  /\ Cardinality(DOMAIN flight) <= MaxInFlight
  /\ pending # << >> => Cardinality(DOMAIN flight) = MaxInFlight
  /\ Len(pending) <= budget.pending
  /\ DOMAIN flight \cap Waiting = {}
  /\ \A j, k \in DOMAIN pending : pending[j] = pending[k] => j = k

\* The answers still to be given to requests the server has taken.
Load == Cardinality(Unanswered) + Len(pending)

\* What waits in the outbox or may still have to be answered while reading is
\* paused: one frame more than the requests and the probes it can come from.
Probes == probe.missed + (IF probe.outstanding = 0 THEN 0 ELSE 1)

OwedOK ==
  /\ Probes <= MaxMissed
  /\ srv = "serving" => probe.missed < MaxMissed
  /\ Len(outbox) + Load <= 1 + MaxInFlight + budget.pending + Probes

\* A session that looked and found nothing has not missed anything since.
WakeOK ==
  consumer \in {"looked", "asleep"} /\ ~woken /\ ~wakeOwed => buffer = 0 /\ ~hasEnded

\* The commands that may still be performed, those whose request was never
\* sent, and what is owed.
Open == Asked(out) \cup Asked(toServer) \cup Waiting
Fresh == {i \in Ids : call[i] \in {"idle", "registered"}}
Owed == Range(control) \cup Range(outbox) \cup Range(toClient)

\* No request is twice among the frames `q`.
OneEach(q) ==
  \A j, k \in DOMAIN q :
    q[j].type = "request" /\ q[k].type = "request" /\ q[j].id = q[k].id => j = k

\* What a frame on its way to the client may say.
Says(f, done, open, fresh) ==
  f.type = "response" =>
    /\ f.id \in Ids \ fresh
    /\ f.code = "ok" => f.id \in done
    /\ f.code \in Refused => f.id \notin done \cup open

FlowOK ==
  /\ OneEach(out) /\ OneEach(toServer)
  /\ Asked(out) \cap Asked(toServer) = {}
  /\ (Asked(out) \cup Asked(toServer)) \cap Waiting = {}
  /\ Open \subseteq Ids /\ Open \cap performed = {}
  /\ Fresh \cap (Open \cup performed) = {}
  /\ \A i \in Open : call[i] \notin Refused
  /\ DOMAIN flight \subseteq performed
  /\ \A f \in Owed : Says(f, performed, Open, Fresh)

\* A close is owed only once the session has been closed.
ClosedOK == \A f \in Owed : f.type = "close" => session = "closed"

IpcInv == IpcTypeOK /\ SlotsOK /\ OwedOK /\ WakeOK /\ FlowOK /\ ClosedOK

-----------------------------------------------------------------------------
(* What the proofs use of numbers and of counting finite sets. The library   *)
(* of finite sets, from which it follows, is in scope only where the         *)
(* theorems are (CountingHolds).                                             *)

Counting ==
  /\ \A S : 0 \in S /\ (\A n \in Nat : n \in S => n + 1 \in S) => Nat \subseteq S
  /\ \A S : IsFiniteSet(S) => Cardinality(S) \in Nat
  /\ IsFiniteSet({}) /\ Cardinality({}) = 0
  /\ \A x : IsFiniteSet({x})
  /\ \A S, T : IsFiniteSet(S) /\ T \subseteq S => IsFiniteSet(T) /\ Cardinality(T) <= Cardinality(S)
  /\ \A n \in Nat : IsFiniteSet(1..n) /\ Cardinality(1..n) = n
  /\ \A S, x : IsFiniteSet(S) =>
       /\ IsFiniteSet(S \cup {x})
       /\ Cardinality(S \cup {x}) = IF x \in S THEN Cardinality(S) ELSE Cardinality(S) + 1
  /\ \A S, x : IsFiniteSet(S) =>
       /\ IsFiniteSet(S \ {x})
       /\ Cardinality(S \ {x}) = IF x \in S THEN Cardinality(S) - 1 ELSE Cardinality(S)
  /\ \A S, T : IsFiniteSet(S) /\ IsFiniteSet(T) => IsFiniteSet(S \cup T)
  /\ \A S, T : IsFiniteSet(S) => Cardinality(S \ T) = Cardinality(S) - Cardinality(S \cap T)
  /\ \A T : IsFiniteSet(T) =>
       \A f \in Injection(1..Cardinality(T), T) : f \in Surjection(1..Cardinality(T), T)

LEMMA Induction ==
  ASSUME Counting, NEW S, 0 \in S, \A n \in Nat : n \in S => n + 1 \in S
  PROVE  Nat \subseteq S
BY Zenon DEF Counting

LEMMA CountType ==
  ASSUME Counting, NEW S, IsFiniteSet(S)
  PROVE  Cardinality(S) \in Nat
BY Zenon DEF Counting

LEMMA CountNone ==
  ASSUME Counting
  PROVE  IsFiniteSet({}) /\ Cardinality({}) = 0
BY Zenon DEF Counting

LEMMA CountOne ==
  ASSUME Counting, NEW x
  PROVE  IsFiniteSet({x})
BY Zenon DEF Counting

LEMMA CountSubset ==
  ASSUME Counting, NEW S, IsFiniteSet(S), NEW T \in SUBSET S
  PROVE  IsFiniteSet(T) /\ Cardinality(T) <= Cardinality(S)
BY Zenon DEF Counting

LEMMA CountInterval ==
  ASSUME Counting, NEW n \in Nat
  PROVE  IsFiniteSet(1..n) /\ Cardinality(1..n) = n
BY Zenon DEF Counting

LEMMA CountAdd ==
  ASSUME Counting, NEW S, NEW x, IsFiniteSet(S)
  PROVE  /\ IsFiniteSet(S \cup {x})
         /\ Cardinality(S \cup {x}) = IF x \in S THEN Cardinality(S) ELSE Cardinality(S) + 1
BY Zenon DEF Counting

LEMMA CountRemove ==
  ASSUME Counting, NEW S, NEW x, IsFiniteSet(S)
  PROVE  /\ IsFiniteSet(S \ {x})
         /\ Cardinality(S \ {x}) = IF x \in S THEN Cardinality(S) - 1 ELSE Cardinality(S)
BY Zenon DEF Counting

LEMMA CountUnion ==
  ASSUME Counting, NEW S, IsFiniteSet(S), NEW T, IsFiniteSet(T)
  PROVE  IsFiniteSet(S \cup T)
BY Zenon DEF Counting

LEMMA CountDifference ==
  ASSUME Counting, NEW S, NEW T, IsFiniteSet(S)
  PROVE  Cardinality(S \ T) = Cardinality(S) - Cardinality(S \cap T)
BY Zenon DEF Counting

LEMMA CountOnto ==
  ASSUME Counting, NEW T, IsFiniteSet(T), NEW f \in Injection(1..Cardinality(T), T)
  PROVE  f \in Surjection(1..Cardinality(T), T)
BY Zenon DEF Counting

-----------------------------------------------------------------------------
(* Sequences and the lanes. *)

\* What the queue operations do to a queue's elements.
LEMMA AppendRange ==
  ASSUME NEW T, NEW q \in Seq(T), NEW x \in T
  PROVE  /\ Append(q, x) \in Seq(T) /\ Len(Append(q, x)) = Len(q) + 1
         /\ Append(q, x) # << >>
         /\ Range(Append(q, x)) = Range(q) \cup {x}
<1>1. /\ Append(q, x) \in Seq(T) /\ Len(Append(q, x)) = Len(q) + 1
      /\ \A k \in 1..Len(q) : Append(q, x)[k] = q[k]
      /\ Append(q, x)[Len(q) + 1] = x
      /\ DOMAIN Append(q, x) = 1..(Len(q) + 1) /\ DOMAIN q = 1..Len(q) /\ Len(q) \in Nat
  OBVIOUS
<1> QED BY <1>1 DEF Range

LEMMA TailRange ==
  ASSUME NEW T, NEW q \in Seq(T), q # << >>
  PROVE  /\ Tail(q) \in Seq(T) /\ Head(q) \in T /\ Len(Tail(q)) = Len(q) - 1
         /\ Head(q) \in Range(q) /\ Range(Tail(q)) \subseteq Range(q)
         /\ \A k \in DOMAIN Tail(q) : k + 1 \in DOMAIN q /\ k + 1 # 1 /\ Tail(q)[k] = q[k + 1]
         /\ 1 \in DOMAIN q /\ q[1] = Head(q)
BY DEF Range

LEMMA EmptyRange == Range(<< >>) = {} /\ Asked(<< >>) = {} /\ OneEach(<< >>)
BY DEF Range, Asked, OneEach

LEMMA ConcatRange ==
  ASSUME NEW T, NEW q \in Seq(T), NEW r \in Seq(T)
  PROVE  /\ q \o r \in Seq(T) /\ Len(q \o r) = Len(q) + Len(r)
         /\ Range(q \o r) = Range(q) \cup Range(r)
<1>1. /\ q \o r \in Seq(T) /\ Len(q \o r) = Len(q) + Len(r)
      /\ DOMAIN (q \o r) = 1..(Len(q) + Len(r)) /\ DOMAIN q = 1..Len(q) /\ DOMAIN r = 1..Len(r)
      /\ Len(q) \in Nat /\ Len(r) \in Nat
      /\ \A k \in 1..Len(q) : (q \o r)[k] = q[k]
      /\ \A k \in 1..Len(r) : (q \o r)[Len(q) + k] = r[k]
  OBVIOUS
<1>2. Range(q \o r) \subseteq Range(q) \cup Range(r)
  BY <1>1 DEF Range
<1>3. \A k \in 1..Len(r) : Len(q) + k \in DOMAIN (q \o r)
  BY <1>1
<1>4. Range(r) \subseteq Range(q \o r)
  BY <1>1, <1>3, Zenon DEF Range
<1>5. Range(q) \subseteq Range(q \o r)
  BY <1>1 DEF Range
<1> QED BY <1>1, <1>2, <1>4, <1>5, Zenon

LEMMA PrefixRange ==
  ASSUME NEW T, NEW q \in Seq(T), NEW n \in Int, n <= Len(q)
  PROVE  SubSeq(q, 1, n) \in Seq(T) /\ Range(SubSeq(q, 1, n)) \subseteq Range(q)
BY DEF Range

\* What a handler's pushes can have made of the lanes `l`: `r` holds no frame
\* but those and `new`, and its outbox is at most `n` longer.
LaneSet == [control : Seq(Frames), outbox : Seq(Frames), end : Ends]

Carries(r, l, new, n) ==
  /\ r \in LaneSet
  /\ Range(r.control) \cup Range(r.outbox) \subseteq Range(l.control) \cup Range(l.outbox) \cup new
  /\ Len(r.outbox) <= Len(l.outbox) + n

\* `push` adds its frame to one lane or to none.
LEMMA PushCarries ==
  ASSUME NEW l \in LaneSet, NEW f \in Frames
  PROVE  Carries(push(l, f), l, {f}, 1)
<1> HIDE DEF push
<1>1. CASE push(l, f) = [control |-> l.control, outbox |-> l.outbox, end |-> "Gone"]
  BY <1>1 DEF Carries, LaneSet, Ends
<1>2. CASE push(l, f) = [control |-> Append(l.control, f), outbox |-> l.outbox, end |-> l.end]
  BY <1>2, AppendRange DEF Carries, LaneSet
<1>3. CASE push(l, f) = [control |-> l.control, outbox |-> Append(l.outbox, f), end |-> "Stalled"]
  BY <1>3, AppendRange DEF Carries, LaneSet, Ends
<1>4. CASE push(l, f) = [control |-> l.control, outbox |-> Append(l.outbox, f), end |-> l.end]
  BY <1>4, AppendRange DEF Carries, LaneSet
<1> QED BY <1>1, <1>2, <1>3, <1>4, Zenon DEF push, LaneSet

\* `pushAll` is well defined and pushes nothing but its frames: the lanes after
\* the first `k` of them are built by induction on `k`.
LEMMA PushAllCarries ==
  ASSUME Counting, NEW l \in LaneSet, NEW frames \in Seq(Frames)
  PROVE  Carries(pushAll(l, frames), l, Range(frames), Len(frames))
<1> DEFINE N == Len(frames)
           Step(g, k) == IF k = 0 THEN l
                         ELSE IF g[k - 1].end = "none" THEN push(g[k - 1], frames[k])
                         ELSE g[k - 1]
           Built(g, m) == g = [k \in 0..m |-> Step(g, k)]
           S == {m \in Nat : \E g : Built(g, m)}
           f == CHOOSE g : Built(g, N)
           C == {m \in Nat : m <= N => Carries(f[m], l, Range(frames), m)}
<1>1. 0 \in S
  <2> DEFINE g == [k \in 0..0 |-> l]
  <2>1. Built(g, 0)
    OBVIOUS
  <2> QED BY <2>1, Zenon
<1>2. ASSUME NEW n \in Nat, n \in S PROVE n + 1 \in S
  <2>1. PICK g : Built(g, n)
    BY <1>2, Zenon
  <2> DEFINE h == [k \in 0..(n + 1) |-> IF k = n + 1 THEN Step(g, n + 1) ELSE g[k]]
  <2>2. ASSUME NEW k \in 0..(n + 1) PROVE h[k] = Step(h, k)
    <3>1. CASE k = 0
      BY <3>1, <2>1
    <3>2. CASE k # 0
      <4>1. CASE k = n + 1
        BY <4>1, <3>2
      <4>2. CASE k # n + 1
        BY <3>2, <4>2, <2>1
      <4> QED BY <4>1, <4>2, Zenon
    <3> QED BY <3>1, <3>2, Zenon
  <2>3. Built(h, n + 1)
    BY <2>2, Zenon
  <2> HIDE DEF Built
  <2> QED BY <2>3
<1>3. N \in Nat /\ N \in S
  <2>1. N \in Nat
    OBVIOUS
  <2> HIDE DEF S, N
  <2> QED BY <2>1, <1>1, <1>2, Induction, Zenon
<1>4. Built(f, N)
  BY <1>3, Zenon
<1>5. pushAll(l, frames) = f[N]
  BY Zenon DEF pushAll
<1> HIDE DEF f
<1>6. 0 \in C
  BY <1>3, <1>4 DEF LaneSet, Carries
<1>7. ASSUME NEW n \in Nat, n \in C PROVE n + 1 \in C
  <2> SUFFICES ASSUME n + 1 <= N PROVE Carries(f[n + 1], l, Range(frames), n + 1)
    OBVIOUS
  <2>1. Carries(f[n], l, Range(frames), n)
    BY <1>7, <1>3
  <2>2. f[n + 1] = IF f[n].end = "none" THEN push(f[n], frames[n + 1]) ELSE f[n]
    BY <1>3, <1>4
  <2> HIDE DEF C, S, Built, Step
  <2>3. f[n] \in LaneSet /\ Len(f[n].outbox) \in Nat /\ Len(l.outbox) \in Nat
    BY <2>1 DEF Carries, LaneSet
  <2>4. frames[n + 1] \in Frames /\ frames[n + 1] \in Range(frames)
    BY <1>3 DEF Range
  <2>5. CASE f[n].end = "none"
    <3>1. Carries(f[n + 1], f[n], {frames[n + 1]}, 1)
      BY <2>2, <2>3, <2>4, <2>5, PushCarries, Zenon
    <3>2. Len(f[n + 1].outbox) \in Nat
      BY <3>1 DEF Carries, LaneSet
    <3> HIDE DEF N
    <3>3. \A x, y, z \in Nat : x <= y + 1 /\ y <= z + n => x <= z + (n + 1)
      OBVIOUS
    <3> QED BY <2>1, <2>4, <3>1, Zenon, <2>3, <3>2, <3>3 DEF Carries
  <2>6. CASE f[n].end # "none"
    <3>1. \A x, y \in Nat : x <= y + n => x <= y + (n + 1)
      OBVIOUS
    <3> QED BY <2>1, Zenon, <2>2, <2>6, <2>3, <3>1 DEF Carries
  <2> QED BY <2>5, <2>6, Zenon
<1>8. N \in C
  BY <1>3, <1>6, <1>7, Induction, Zenon
<1> QED BY <1>3, <1>5, <1>8

\* An enumeration of a finite set names each of its members, once.
LEMMA OrdersFacts ==
  ASSUME Counting, NEW T, IsFiniteSet(T), NEW f \in Orders(T)
  PROVE  /\ f \in Seq(T) /\ Len(f) = Cardinality(T) /\ Cardinality(T) \in Nat
         /\ f \in [1..Cardinality(T) -> T]
         /\ \A j, k \in 1..Cardinality(T) : f[j] = f[k] => j = k
         /\ Range(f) = T
<1> DEFINE n == Cardinality(T)
<1>1. f \in Surjection(1..n, T)
  BY CountOnto, CountInterval, CountType, Zenon DEF n, Orders
<1> QED
  BY CountType, <1>1 DEF Injection, IsInjective, Orders, Surjection, Range

\* The waiting requests at some positions are these, in order and once each.
LEMMA RetainedFacts ==
  ASSUME Counting, pending \in Seq(Ids), NEW at, at \subseteq DOMAIN pending, NEW q \in Retained(at)
  PROVE  /\ q \in Seq(Ids) /\ Len(q) = Cardinality(at) /\ IsFiniteSet(at)
         /\ Range(q) = {pending[k] : k \in at}
         /\ (\A j, k \in DOMAIN pending : pending[j] = pending[k] => j = k) =>
              (\A j, k \in DOMAIN q : q[j] = q[k] => j = k)
<1> DEFINE n == Cardinality(at)
<1>1. IsFiniteSet(at)
  BY CountSubset, CountInterval
<1>2. PICK f \in Orders(at) : q = [k \in 1..n |-> pending[f[k]]]
  BY Zenon DEF Retained, Orders
<1>3. /\ n \in Nat /\ f \in [1..n -> at] /\ Range(f) = at
      /\ \A j, k \in 1..n : f[j] = f[k] => j = k
  BY <1>1, <1>2, OrdersFacts, Zenon
<1>4. q \in Seq(Ids) /\ Len(q) = n /\ DOMAIN q = 1..n
  BY <1>2, <1>3
<1>5. ASSUME \A j, k \in DOMAIN pending : pending[j] = pending[k] => j = k,
             NEW j \in 1..n, NEW k \in 1..n, q[j] = q[k]
      PROVE  j = k
  BY <1>2, <1>5, <1>3, Zenon
<1> QED BY <1>1, <1>4, <1>5, <1>2, <1>3 DEF Range

-----------------------------------------------------------------------------
(* What a handler's pushes do to the connection. *)

Pushed(new, n) ==
  /\ control' \in Seq(Frames) /\ outbox' \in Seq(Frames)
  /\ Range(control') \cup Range(outbox') \subseteq Range(control) \cup Range(outbox) \cup new
  /\ Len(outbox') <= Len(outbox) + n
  /\ srv' \in {"serving", "ending"}
  /\ closing' \in {"none"} \cup NotKnown

LEMMA CommitPushes ==
  ASSUME NEW l, NEW new, NEW n \in Nat, Carries(l, Lanes, new, n), Commit(l)
  PROVE  Pushed(new, n)
BY Zenon DEF Carries, LaneSet, Reserves, Ends, Commit, Pushed, Lanes

LEMMA LanesType ==
  ASSUME control \in Seq(Frames), outbox \in Seq(Frames)
  PROVE  Lanes \in LaneSet /\ Len(outbox) \in Nat /\ Lanes.control = control /\ Lanes.outbox = outbox
BY DEF Lanes, LaneSet, Ends

LEMMA FrameType ==
  ASSUME NEW id \in Nat, NEW code \in Answers
  PROVE  response(id, code) \in Frames /\ Frame("ping", id, "none") \in Frames
BY Zenon DEF response, Frame, Frames, Types

LEMMA PushFrame ==
  ASSUME control \in Seq(Frames), outbox \in Seq(Frames), NEW f \in Frames,
         Commit(push(Lanes, f))
  PROVE  Pushed({f}, 1)
BY LanesType, PushCarries, CommitPushes, Zenon

LEMMA RespondPushes ==
  ASSUME control \in Seq(Frames), outbox \in Seq(Frames),
         NEW id \in Nat, NEW code \in Answers, respond(id, code)
  PROVE  Pushed({response(id, code)}, 1)
BY FrameType, PushFrame, Zenon DEF respond

LEMMA EndPushes ==
  ASSUME control \in Seq(Frames), outbox \in Seq(Frames), NEW e \in Ends \ {"none"}, EndWith(e)
  PROVE  Pushed({}, 0) /\ srv' = "ending"
BY LanesType, CommitPushes DEF LaneSet, Carries, Lanes, EndWith, Commit

\* The answers `expire` pushes: a `Timeout` for each request whose deadline
\* passed, and as many as there are.
LEMMA ExpirePushes ==
  ASSUME Counting, FlightTypeOK, LaneTypeOK, NEW due, expire(due)
  PROVE  Pushed({response(i, "Timeout") : i \in due},
                Cardinality({k \in DOMAIN pending : pending[k] \in due}) +
                Cardinality(due \cap DOMAIN flight))
<1> DEFINE at == {k \in DOMAIN pending : pending[k] \in due}
           on == due \cap DOMAIN flight
<1>1. PICK lapsed \in Retained(at), marked \in Orders(on) :
        LET timedOut == lapsed \o marked
        IN Commit(pushAll(Lanes, [k \in 1..Len(timedOut) |-> response(timedOut[k], "Timeout")]))
  BY Zenon DEF expire
<1>2. pending \in Seq(Ids) /\ control \in Seq(Frames) /\ outbox \in Seq(Frames)
      /\ IsFiniteSet(on) /\ on \subseteq Ids
  BY CountSubset, Zenon DEF FlightTypeOK, LaneTypeOK
<1> DEFINE timedOut == lapsed \o marked
           frames == [k \in 1..Len(timedOut) |-> response(timedOut[k], "Timeout")]
<1>3. lapsed \in Seq(Ids) /\ Len(lapsed) = Cardinality(at) /\ Range(lapsed) \subseteq due
      /\ IsFiniteSet(at)
  BY <1>2, RetainedFacts DEF at
<1>4. marked \in Seq(Ids) /\ Len(marked) = Cardinality(on) /\ Range(marked) = on
      /\ Cardinality(on) \in Nat
  BY <1>2, OrdersFacts
<1>5. timedOut \in Seq(Ids) /\ Len(timedOut) = Cardinality(at) + Cardinality(on)
      /\ Range(timedOut) \subseteq due
  BY <1>3, <1>4, ConcatRange DEF on
<1> HIDE DEF timedOut
<1>6. \A k \in 1..Len(timedOut) : timedOut[k] \in due /\ response(timedOut[k], "Timeout") \in Frames
  <2>1. DOMAIN timedOut = 1..Len(timedOut)
    BY <1>5
  <2> SUFFICES ASSUME NEW k \in DOMAIN timedOut
               PROVE  timedOut[k] \in due /\ response(timedOut[k], "Timeout") \in Frames
    BY <2>1, Zenon
  <2>2. timedOut[k] \in Ids
    BY <1>5, <2>1
  <2> QED BY FrameType, Zenon, WireAssumption, <1>5, <2>2 DEF Answers, NotKnown, Range
<1>7. frames \in Seq(Frames) /\ Len(frames) = Cardinality(at) + Cardinality(on)
      /\ Range(frames) \subseteq {response(i, "Timeout") : i \in due}
  <2> HIDE DEF at, on
  <2> QED BY <1>5, <1>6 DEF Range
<1>8. Commit(pushAll(Lanes, frames))
  BY <1>1, Zenon DEF timedOut
<1> HIDE DEF frames
<1>9. Len(frames) \in Nat
  BY <1>7
<1>10. Pushed({response(i, "Timeout") : i \in due}, Len(frames))
  BY <1>8, <1>9, CommitPushes, <1>7, <1>2, LanesType, PushAllCarries, Zenon DEF Carries
<1> QED BY <1>7, <1>10, Zenon

-----------------------------------------------------------------------------
(* What a handler does to the requests in flight and waiting. *)

LEMMA LoadBound ==
  Counting /\ FlightTypeOK /\ SlotsOK /\ budget.pending \in Nat =>
         /\ Load \in Nat /\ Load <= MaxInFlight + budget.pending
         /\ Cardinality(DOMAIN flight) \in Nat /\ IsFiniteSet(Unanswered)
         /\ Cardinality(Unanswered) \in Nat /\ Len(pending) \in Nat /\ MaxInFlight \in Nat
BY CountSubset, CountType, ServerAssumption DEF Unanswered, FlightTypeOK,
     SlotsOK, Load

LEMMA LoadBoundNext ==
  Counting /\ (FlightTypeOK /\ SlotsOK /\ budget.pending \in Nat)' =>
    (Load \in Nat /\ Load <= MaxInFlight + budget.pending)'
BY CountSubset, CountType, ServerAssumption DEF Unanswered, FlightTypeOK, SlotsOK, Load

\* A request is admitted to a free slot.
LEMMA AdmitSlots ==
  ASSUME Counting, FlightTypeOK, SlotsOK, budget.pending \in Nat, budget'.pending = budget.pending,
         NEW id \in Ids, id \notin DOMAIN flight, HasSlot,
         flight' = [i \in DOMAIN flight \cup {id} |->
                      IF i = id THEN Task(FALSE) ELSE flight[i]],
         performed' = performed \cup {id}, pending' = pending
  PROVE  FlightTypeOK' /\ SlotsOK' /\ DOMAIN flight' = DOMAIN flight \cup {id}
<1>1. /\ IsFiniteSet(DOMAIN flight')
      /\ Cardinality(DOMAIN flight') = Cardinality(DOMAIN flight) + 1
  BY CountAdd, Zenon DEF FlightTypeOK
<1> QED
  BY <1>1, LoadBound, EmptyRange DEF Task, Tasks, FlightTypeOK, HasSlot, Waiting,
       SlotsOK

\* A request waits, every slot being taken.
LEMMA WaitSlots ==
  ASSUME Counting, FlightTypeOK, SlotsOK, budget.pending \in Nat, budget'.pending = budget.pending,
         NEW id \in Ids, id \notin DOMAIN flight \cup Waiting, ~HasSlot,
         Len(pending) < budget.pending,
         pending' = Append(pending, id), flight' = flight, performed' = performed
  PROVE  FlightTypeOK' /\ SlotsOK' /\ Waiting' = Waiting \cup {id}
<1>1. \A j, k \in DOMAIN pending' : pending'[j] = pending'[k] => j = k
  BY DEF FlightTypeOK, Waiting, Range, SlotsOK
<1> QED BY <1>1, LoadBound, AppendRange DEF SlotsOK, FlightTypeOK, Waiting, HasSlot

\* Some of the waiting leave; what is in flight stays there.
LEMMA LeaveSlots ==
  ASSUME Counting, FlightTypeOK, SlotsOK, budget.pending \in Nat, budget'.pending = budget.pending,
         NEW at, at \subseteq DOMAIN pending, pending' \in Retained(DOMAIN pending \ at),
         DOMAIN flight' = DOMAIN flight, flight' = [i \in DOMAIN flight' |-> flight'[i]],
         \A i \in DOMAIN flight : flight'[i] \in Tasks, performed' = performed
  PROVE  /\ FlightTypeOK' /\ SlotsOK'
         /\ Waiting' = {pending[k] : k \in DOMAIN pending \ at}
         /\ Len(pending') + Cardinality(at) = Len(pending) /\ Cardinality(at) \in Nat
<1>1. /\ pending' \in Seq(Ids) /\ Len(pending') = Cardinality(DOMAIN pending \ at)
      /\ Waiting' = {pending[k] : k \in DOMAIN pending \ at}
      /\ \A j, k \in DOMAIN pending' : pending'[j] = pending'[k] => j = k
  BY RetainedFacts, Zenon DEF FlightTypeOK, SlotsOK, Waiting
<1>2. /\ Len(pending) \in Nat /\ Cardinality(at) \in Nat
      /\ Len(pending') + Cardinality(at) = Len(pending)
  <2>1. DOMAIN pending = 1..Len(pending) /\ Len(pending) \in Nat
    BY DEF FlightTypeOK
  <2>2. IsFiniteSet(DOMAIN pending) /\ Cardinality(DOMAIN pending) = Len(pending)
    BY <2>1, CountInterval, Zenon
  <2>3. Cardinality(DOMAIN pending \ at) = Cardinality(DOMAIN pending) - Cardinality(DOMAIN pending \cap at)
    BY <2>2, CountDifference, Zenon
  <2>4. Len(pending') = Len(pending) - Cardinality(at)
    BY <1>1, <2>2, <2>3, Zenon
  <2> QED BY <2>1, <2>4, <2>2, CountSubset, CountType
<1>3. Waiting' \subseteq Waiting
  BY <1>1, Zenon DEF Waiting, Range
<1>4. pending' # << >> => pending # << >>
  BY <1>1, <1>2
<1>5. Len(pending') <= budget'.pending
  BY <1>1, <1>2 DEF SlotsOK
<1> QED BY <1>1, <1>2, <1>3, <1>4, <1>5, Zenon DEF SlotsOK, FlightTypeOK

LEMMA TaskType ==
  ASSUME NEW a \in BOOLEAN, NEW t \in {"running", "ok", "Internal"}
  PROVE  [answered |-> a, task |-> t] \in Tasks
BY Zenon DEF Tasks

\* Deadlines pass: the answers pushed are as many as leave the load.
LEMMA ExpireSlots ==
  ASSUME Counting, FlightTypeOK, SlotsOK, budget.pending \in Nat, NEW due, expire(due)
  PROVE  /\ FlightTypeOK' /\ SlotsOK' /\ DOMAIN flight' = DOMAIN flight
         /\ Waiting' = Waiting \ due /\ performed' = performed
         /\ Cardinality({k \in DOMAIN pending : pending[k] \in due}) \in Nat
         /\ Cardinality(due \cap DOMAIN flight) \in Nat
         /\ Load' = Load - (Cardinality({k \in DOMAIN pending : pending[k] \in due}) +
                            Cardinality(due \cap DOMAIN flight))
<1> DEFINE at == {k \in DOMAIN pending : pending[k] \in due}
           on == due \cap DOMAIN flight
<1>1. /\ budget' = budget /\ performed' = performed /\ due \subseteq Waiting \cup Unanswered
      /\ pending' \in Retained({k \in DOMAIN pending : pending[k] \notin due})
      /\ flight' = [i \in DOMAIN flight |->
                      [flight[i] EXCEPT !.answered = @ \/ i \in due]]
  BY Zenon DEF expire, wire
<1>2. at \subseteq DOMAIN pending /\ pending' \in Retained(DOMAIN pending \ at)
  BY <1>1, Zenon
<1>3. ASSUME NEW i \in DOMAIN flight
      PROVE  /\ flight'[i] \in Tasks
             /\ flight'[i].answered <=> flight[i].answered \/ i \in due
  BY <1>1, TaskType, Zenon DEF FlightTypeOK, Tasks
<1> HIDE DEF at, on
<1>4. /\ FlightTypeOK' /\ SlotsOK'
      /\ Waiting' = {pending[k] : k \in DOMAIN pending \ at}
      /\ Len(pending') + Cardinality(at) = Len(pending) /\ Cardinality(at) \in Nat
  BY <1>3, <1>1, <1>2, LeaveSlots, Zenon
<1>5. /\ Cardinality(on) \in Nat /\ Cardinality(Unanswered) \in Nat
      /\ Cardinality(Unanswered') = Cardinality(Unanswered) - Cardinality(on)
  <2>1. Cardinality(Unanswered \ on) = Cardinality(Unanswered) - Cardinality(Unanswered \cap on)
    BY CountDifference, Zenon, LoadBound
  <2> QED
    BY <2>1, <1>1, <1>3, LoadBound, CountSubset, CountType, Zenon DEF on, SlotsOK,
         Unanswered
<1>6. Load' = Load - (Cardinality(at) + Cardinality(on))
  BY <1>4, <1>5, LoadBound DEF Load, FlightTypeOK
<1> QED BY <1>1, <1>4, <1>5, <1>6, Zenon DEF at, on, Waiting, Range

\* A finished task leaves its slot, and the oldest waiting request takes it.
LEMMA JoinSlots ==
  ASSUME Counting, FlightTypeOK, SlotsOK, budget.pending \in Nat, budget'.pending = budget.pending,
         NEW id \in DOMAIN flight, promote(Drop(flight, {id}))
  PROVE  /\ FlightTypeOK' /\ SlotsOK'
         /\ Load' <= Load - (IF flight[id].answered THEN 0 ELSE 1)
         /\ \/ /\ performed' = performed /\ Waiting' = Waiting
               /\ DOMAIN flight' = DOMAIN flight \ {id}
            \/ \E first \in Waiting :
                 /\ performed' = performed \cup {first} /\ Waiting' = Waiting \ {first}
                 /\ DOMAIN flight' = (DOMAIN flight \ {id}) \cup {first}
<1> DEFINE left == Drop(flight, {id})
           free == MaxInFlight - Cardinality(DOMAIN left)
           n == IF Len(pending) < free THEN Len(pending) ELSE free
           taken == {pending[k] : k \in 1..n}
<1>1. /\ flight' = [i \in DOMAIN left \cup taken |->
                      IF i \in taken THEN Task(FALSE) ELSE left[i]]
      /\ pending' = SubSeq(pending, n + 1, Len(pending))
      /\ performed' = performed \cup taken
  BY Zenon DEF promote
<1>2. /\ DOMAIN left = DOMAIN flight \ {id}
      /\ \A i \in DOMAIN left : left[i] = flight[i]
  BY Zenon DEF Drop
<1>3. /\ IsFiniteSet(DOMAIN left) /\ Cardinality(DOMAIN flight) \in Nat
      /\ Cardinality(DOMAIN left) = Cardinality(DOMAIN flight) - 1
      /\ Len(pending) \in Nat /\ MaxInFlight \in Nat /\ Cardinality(DOMAIN flight) <= MaxInFlight
  BY <1>2, LoadBound, CountRemove DEF FlightTypeOK, SlotsOK
<1>4. ASSUME NEW new \in SUBSET Ids, DOMAIN flight' = DOMAIN left \cup new,
             \A i \in DOMAIN flight' : flight'[i] = IF i \in new THEN Task(FALSE) ELSE flight[i],
             new \cap DOMAIN flight = {}, pending' \in Seq(Ids), performed' = performed \cup new,
             flight' = [i \in DOMAIN flight' |-> flight'[i]], IsFiniteSet(new)
      PROVE  /\ FlightTypeOK'
             /\ Unanswered' = (Unanswered \ {id}) \cup new
  <2>1. Task(FALSE) \in Tasks /\ ~Task(FALSE).answered
    BY Zenon DEF Task, Tasks
  <2>2. IsFiniteSet(DOMAIN flight')
    <3>1. IsFiniteSet(DOMAIN left \cup new)
      BY <1>3, <1>4, CountUnion, Zenon
    <3> QED BY <1>4, <3>1, Zenon
  <2>3. Unanswered' = (Unanswered \ {id}) \cup new
    BY <1>2, <1>4, <2>1, Zenon DEF Unanswered
  <2> QED BY <2>3, <1>4, <2>2, <1>2, <2>1, Zenon DEF FlightTypeOK
<1> DEFINE less == IF flight[id].answered THEN 0 ELSE 1
<1>5. /\ Cardinality(Unanswered \ {id}) = Cardinality(Unanswered) - less
      /\ IsFiniteSet(Unanswered \ {id}) /\ Cardinality(Unanswered) \in Nat
      /\ Cardinality(Unanswered) - less \in Nat
  <2>1. /\ IsFiniteSet(Unanswered \ {id})
        /\ Cardinality(Unanswered \ {id}) =
             IF id \in Unanswered THEN Cardinality(Unanswered) - 1 ELSE Cardinality(Unanswered)
        /\ Cardinality(Unanswered \ {id}) \in Nat
    BY CountRemove, CountType, LoadBound, Zenon
  <2> QED BY <2>1, LoadBound DEF Unanswered
<1> HIDE DEF left, less
<1>6. CASE pending = << >>
  <2>1. n = 0 /\ taken = {}
    BY <1>3, <1>6
  <2> HIDE DEF n, taken
  <2>2. pending' = << >>
    BY <1>1, <1>6, <2>1
  <2>3. FlightTypeOK' /\ Unanswered' = Unanswered \ {id}
    <3>1. IsFiniteSet({}) /\ << >> \in Seq(Ids)
      BY CountNone
    <3> QED BY <1>4, <2>2, <3>1, Zenon, <1>1, <1>2, <2>1
  <2>4. SlotsOK'
    BY <1>3, <2>2, <1>1, <1>2, <2>1, <1>6, EmptyRange DEF SlotsOK, Waiting
  <2>5. Load' <= Load - less
    BY <1>5, <2>3, <1>6, <2>2, EmptyRange DEF Load, Waiting
  <2> QED
    BY <1>2, <2>3, <2>4, <2>5, <1>1, <2>1, <1>6, <2>2, EmptyRange, Zenon DEF less, Waiting
<1>7. CASE pending # << >>
  <2>1. Cardinality(DOMAIN left) = MaxInFlight - 1 /\ Len(pending) # 0
    BY <1>3, <1>7 DEF SlotsOK, FlightTypeOK
  <2>2. n = 1
    BY <1>3, <2>1
  <2>3. taken = {pending[1]}
    BY <2>2
  <2> HIDE DEF n, taken
  <2> DEFINE first == pending[1]
  <2>4. /\ pending' \in Seq(Ids) /\ Len(pending') = Len(pending) - 1
        /\ DOMAIN pending' = 1..(Len(pending) - 1)
        /\ \A k \in 1..(Len(pending) - 1) : pending'[k] = pending[k + 1]
        /\ DOMAIN pending = 1..Len(pending)
    <3>1. pending \in Seq(Ids) /\ pending' = SubSeq(pending, 2, Len(pending))
          /\ Len(pending) \in Nat /\ Len(pending) # 0 /\ DOMAIN pending = 1..Len(pending)
      BY <1>1, <2>2, <1>7 DEF FlightTypeOK
    <3> QED BY <3>1
  <2>5. first \in Waiting /\ first \in Ids /\ first \notin DOMAIN flight
    BY <1>3, <2>1, <2>4 DEF Waiting, Range, SlotsOK, FlightTypeOK
  <2> HIDE DEF first
  <2>6. Waiting' = Waiting \ {first}
    <3>1. ASSUME NEW k \in DOMAIN pending' PROVE pending'[k] \in Waiting \ {first}
      <4>1. k + 1 \in DOMAIN pending /\ 1 \in DOMAIN pending /\ k + 1 # 1 /\ pending'[k] = pending[k + 1]
        BY <1>3, <2>1, <2>4
      <4> QED BY <4>1, Zenon DEF SlotsOK, Waiting, Range, first
    <3>2. ASSUME NEW k \in DOMAIN pending, pending[k] # first PROVE pending[k] \in Waiting'
      <4>1. k - 1 \in DOMAIN pending' /\ pending'[k - 1] = pending[k]
        BY <2>4, <3>2, <1>3 DEF first
      <4> QED BY <4>1, Zenon DEF Waiting, Range
    <3> QED BY <3>1, <3>2, Zenon DEF Waiting, Range
  <2>7. FlightTypeOK' /\ Unanswered' = (Unanswered \ {id}) \cup {first}
    <3>1. IsFiniteSet({first}) /\ {first} \in SUBSET Ids /\ {first} \cap DOMAIN flight = {}
      BY <2>5, CountOne, Zenon
    <3> QED BY <1>4, <2>4, <3>1, Zenon, <1>1, <1>2, <2>3 DEF first
  <2>8. Cardinality(DOMAIN flight') = MaxInFlight
    <3>1. Cardinality(DOMAIN left \cup {first}) = Cardinality(DOMAIN left) + 1
      BY <1>3, CountAdd, Zenon, <1>2, <2>5
    <3> QED BY <1>3, <2>1, <3>1, <1>1, <1>2, <2>3 DEF first
  <2>9. SlotsOK'
    <3>1. ASSUME NEW j \in DOMAIN pending', NEW k \in DOMAIN pending', pending'[j] = pending'[k]
          PROVE  j = k
      <4>1. j + 1 \in DOMAIN pending /\ k + 1 \in DOMAIN pending /\ pending[j + 1] = pending[k + 1]
            /\ j \in Nat /\ k \in Nat
        BY <1>3, <2>4, <3>1
      <4> QED BY <4>1 DEF SlotsOK
    <3> QED BY <1>3, <2>8, <3>1, <2>4, <1>2, <2>6, <1>1, <2>3 DEF SlotsOK, first
  <2>10. Load' <= Load - less
    <3>1. Cardinality(Unanswered') = (Cardinality(Unanswered) - less) + 1
      <4>1. first \notin Unanswered \ {id}
        BY <2>5, Zenon DEF Unanswered
      <4> QED BY <1>5, <2>7, <4>1, CountAdd, Zenon
    <3> QED BY <1>3, <1>5, <2>4, <3>1 DEF Load, less
  <2> QED BY <1>2, <2>5, <2>6, <2>7, <2>9, <2>10, <1>1, <2>3, Zenon DEF less, first
<1> QED BY <1>6, <1>7, Zenon

-----------------------------------------------------------------------------
(* The types, the slots and what is owed: preserved by every step. *)

BaseInv == IpcTypeOK /\ SlotsOK /\ OwedOK
ServerOK == FlightTypeOK /\ LaneTypeOK /\ ProbeTypeOK /\ SlotsOK /\ OwedOK

LEMMA TypeFacts ==
  ASSUME BaseInv
  PROVE  /\ FlightTypeOK /\ LaneTypeOK /\ ProbeTypeOK /\ SlotsOK /\ OwedOK
         /\ control \in Seq(Frames) /\ outbox \in Seq(Frames) /\ Len(outbox) \in Nat
         /\ budget.pending \in Nat
BY DEF BaseInv, IpcTypeOK, LaneTypeOK, WireTypeOK

LEMMA BaseFacts ==
  ASSUME Counting, BaseInv
  PROVE  /\ FlightTypeOK /\ LaneTypeOK /\ ProbeTypeOK /\ SlotsOK /\ OwedOK
         /\ control \in Seq(Frames) /\ outbox \in Seq(Frames) /\ Len(outbox) \in Nat
         /\ budget.pending \in Nat /\ Load \in Nat /\ Load <= MaxInFlight + budget.pending
         /\ MaxInFlight \in Nat /\ MaxMissed \in Nat /\ Probes \in Nat
         /\ probe.missed \in Nat /\ probe.outstanding \in Nat /\ probe.sent \in Nat
<1>1. Probes \in Nat
  BY DEF Probes, ProbeTypeOK, BaseInv, IpcTypeOK, LaneTypeOK, WireTypeOK
<1> QED
  BY <1>1, LoadBound, ServerAssumption DEF BaseInv, IpcTypeOK, LaneTypeOK, WireTypeOK,
       ProbeTypeOK

\* What a step that pushes has to show.
LEMMA PushedOK ==
  ASSUME Counting, BaseInv, NEW new, NEW n \in Nat, Pushed(new, n),
         FlightTypeOK', SlotsOK', ProbeTypeOK', budget'.pending = budget.pending,
         Probes' \in Nat, Probes' <= MaxMissed, srv' = "serving" => probe'.missed < MaxMissed,
         Len(outbox) + n + Load' <= 1 + MaxInFlight + budget.pending + Probes'
  PROVE  ServerOK'
<1>1. Load' \in Nat /\ budget'.pending \in Nat /\ MaxInFlight \in Nat /\ Len(outbox) \in Nat
      /\ budget.pending \in Nat
  BY LoadBoundNext, BaseFacts, Zenon
<1> QED BY <1>1 DEF ServerOK, OwedOK, Pushed, LaneTypeOK

\* While the server reads, nothing waits in the outbox: one frame may.
LEMMA ReadingOK ==
  ASSUME Counting, BaseInv, Reading, NEW new, NEW n \in {0, 1}, Pushed(new, n),
         FlightTypeOK', SlotsOK', ProbeTypeOK', budget'.pending = budget.pending,
         Probes' \in Nat, Probes' <= MaxMissed, srv' = "serving" => probe'.missed < MaxMissed
  PROVE  ServerOK'
<1>1. Load' \in Nat /\ Load' <= MaxInFlight + budget.pending /\ budget.pending \in Nat
      /\ MaxInFlight \in Nat
  BY LoadBoundNext, BaseFacts, Zenon
<1> QED BY PushedOK, <1>1 DEF Reading

LEMMA SameProbe ==
  ASSUME Counting, BaseInv, probe' = probe
  PROVE  /\ ProbeTypeOK' /\ Probes' = Probes /\ Probes' \in Nat /\ Probes' <= MaxMissed
         /\ srv = "serving" => probe'.missed < MaxMissed
BY BaseFacts, Zenon DEF ProbeTypeOK, Probes, OwedOK

LEMMA SameSlots ==
  ASSUME Counting, BaseInv, UNCHANGED <<flight, pending, performed>>, budget'.pending = budget.pending
  PROVE  FlightTypeOK' /\ SlotsOK' /\ Load' = Load
BY BaseFacts, Zenon DEF FlightTypeOK, SlotsOK, Load, Unanswered, Waiting

\* A lane left alone pushes nothing.
LEMMA SameLanes ==
  ASSUME BaseInv, UNCHANGED <<control, outbox, closing>>, srv = "serving", srv' = srv
  PROVE  Pushed({}, 0)
BY TypeFacts DEF Pushed, LaneTypeOK

\* An end decided by a handler that does nothing else.
LEMMA EndOK ==
  ASSUME Counting, BaseInv, NEW e \in Ends \ {"none"}, EndWith(e), srv = "serving",
         UNCHANGED <<flight, pending, performed, probe>>, budget'.pending = budget.pending
  PROVE  ServerOK'
BY BaseFacts, EndPushes, SameSlots, SameProbe, PushedOK DEF OwedOK

LEMMA RequestOK ==
  ASSUME Counting, BaseInv, Reading, NEW id \in Ids, request(id), budget'.pending = budget.pending
  PROVE  ServerOK'
<1> USE BaseFacts
<1>1. ASSUME NEW code \in Answers, respond(id, code), UNCHANGED <<flight, pending, performed>>
      PROVE  ServerOK'
  BY <1>1, RespondPushes, SameSlots, ReadingOK, WireAssumption, SameProbe, Zenon DEF request,
       Reading
<1>2. CASE id \in Unanswered \cup Waiting
  BY <1>2, EndOK, WireAssumption, Zenon DEF request, Ends, NotKnown, Reading
<1>3. CASE id \notin Unanswered \cup Waiting /\ id \in DOMAIN flight
  BY <1>3, <1>1, Zenon DEF request, Answers, Refused
<1>4. CASE id \notin Unanswered \cup Waiting /\ id \notin DOMAIN flight
  BY <1>1, <1>4, AdmitSlots, SameLanes, ReadingOK, WaitSlots, WireAssumption, SameProbe, Zenon
       DEF Answers, Refused, Overload, request, Reading
<1> QED BY <1>2, <1>3, <1>4, Zenon

LEMMA CancelSlots ==
  ASSUME Counting, BaseInv, NEW id, budget'.pending = budget.pending, performed' = performed,
         \/ /\ id \in Waiting /\ flight' = flight
            /\ pending' \in Retained({k \in DOMAIN pending : pending[k] # id})
         \/ /\ id \in Unanswered /\ pending' = pending
            /\ flight' = [flight EXCEPT ![id].answered = TRUE]
  PROVE  /\ FlightTypeOK' /\ SlotsOK' /\ DOMAIN flight' = DOMAIN flight
         /\ Waiting' = Waiting \ {id}
<1> USE BaseFacts
<1>1. CASE /\ id \in Waiting /\ flight' = flight
           /\ pending' \in Retained({k \in DOMAIN pending : pending[k] # id})
  <2> DEFINE at == {k \in DOMAIN pending : pending[k] = id}
  <2>1. at \subseteq DOMAIN pending /\ pending' \in Retained(DOMAIN pending \ at)
    BY <1>1, Zenon
  <2>2. /\ FlightTypeOK' /\ SlotsOK'
        /\ Waiting' = {pending[k] : k \in DOMAIN pending \ at}
    BY <1>1, <2>1, LeaveSlots, Zenon DEF FlightTypeOK
  <2> QED BY <1>1, <2>2, Zenon DEF Waiting, Range
<1>2. CASE /\ id \in Unanswered /\ pending' = pending
           /\ flight' = [flight EXCEPT ![id].answered = TRUE]
  BY <1>2, Zenon DEF Unanswered, SlotsOK, Waiting, FlightTypeOK, Tasks
<1> QED BY <1>1, <1>2, Zenon

LEMMA CancelOK ==
  ASSUME Counting, BaseInv, Reading, NEW id \in Nat, cancel(id), budget'.pending = budget.pending
  PROVE  ServerOK'
BY BaseFacts, SameProbe, RespondPushes, ReadingOK, CancelSlots, SameLanes, SameSlots, Zenon DEF
     cancel, Reading, Answers, Refused, NotKnown

LEMMA PongOK ==
  ASSUME Counting, BaseInv, Reading, NEW nonce, pong(nonce), budget'.pending = budget.pending
  PROVE  ServerOK'
<1> USE BaseFacts
<1>1. /\ ProbeTypeOK' /\ Probes' \in Nat /\ Probes' <= MaxMissed
      /\ probe'.missed < MaxMissed
  <2>1. CASE probe' = probe
    BY <2>1, SameProbe, Zenon DEF pong, Reading
  <2>2. CASE probe' = [probe EXCEPT !.outstanding = 0, !.missed = 0]
    <3>1. ProbeTypeOK' /\ probe'.outstanding = 0 /\ probe'.missed = 0
      BY <2>2, Zenon DEF ProbeTypeOK
    <3> QED BY <3>1, ServerAssumption DEF Probes
  <2> QED BY <2>1, <2>2, Zenon DEF pong
<1> QED BY <1>1, SameSlots, ReadingOK, SameLanes, Zenon DEF pong, Reading

LEMMA ReadFrameOK ==
  ASSUME Counting, BaseInv, ReadFrame
  PROVE  ServerOK'
BY TailRange, RequestOK, CancelOK, PongOK DEF ReadFrame, BaseInv, IpcTypeOK, WireTypeOK,
     Frames, Asked

LEMMA KeepaliveOK ==
  ASSUME Counting, BaseInv, KeepaliveWake
  PROVE  ServerOK'
<1> USE BaseFacts
<1>1. Missed \in Nat /\ Missed = Probes /\ Probes <= MaxMissed /\ MaxMissed > 0
      /\ (probe.outstanding = 0 => Missed < MaxMissed)
  <2>1. Missed \in Nat /\ Missed = Probes
    BY DEF Missed, Probes
  <2>2. MaxMissed > 0
    BY ServerAssumption
  <2> QED BY <2>1, <2>2, Zenon DEF OwedOK, KeepaliveWake, wire, Missed
<1>2. Len(outbox) + Load <= 1 + MaxInFlight + budget.pending + Probes
  BY Zenon DEF OwedOK
<1>3. ASSUME NEW new, Pushed(new, 0), srv' = "serving" => Missed < MaxMissed,
             probe' = [probe EXCEPT !.outstanding = 0, !.missed = Missed]
      PROVE  ServerOK'
  <2>1. Probes' = Probes
    BY <1>1, <1>3 DEF Probes, ProbeTypeOK
  <2>2. Len(outbox) + 0 + Load' <= 1 + MaxInFlight + budget.pending + Probes'
    BY <1>2, <2>1, SameSlots DEF KeepaliveWake, wire
  <2> QED
    BY <1>1, <1>3, <2>1, <2>2, PushedOK, Zenon, SameSlots DEF KeepaliveWake, wire,
         ProbeTypeOK
<1>4. CASE /\ probe.outstanding # 0 /\ Missed >= MaxMissed /\ EndWith("Timeout")
           /\ probe' = [probe EXCEPT !.outstanding = 0, !.missed = Missed]
  BY <1>4, EndPushes, <1>3, Zenon DEF Ends, NotKnown
<1>5. CASE /\ probe.outstanding # 0 /\ Missed < MaxMissed
           /\ probe' = [probe EXCEPT !.outstanding = 0, !.missed = Missed]
           /\ UNCHANGED <<control, outbox, srv, closing>>
  BY <1>5, SameLanes, <1>3, Zenon DEF KeepaliveWake, wire
<1>6. CASE /\ probe.outstanding # 0 => Missed < MaxMissed
           /\ probe' = [outstanding |-> probe.sent + 1, missed |-> Missed, sent |-> probe.sent + 1]
           /\ Commit(push(Lanes, Frame("ping", probe.sent + 1, "none")))
  <2>1. ProbeTypeOK' /\ probe'.outstanding # 0 /\ probe'.missed = Missed
    BY <1>1, <1>6 DEF ProbeTypeOK
  <2>2. Frame("ping", probe.sent + 1, "none") \in Frames
    BY DEF Frame, Frames, Types
  <2>3. Len(outbox) + 1 + Load' <= 1 + MaxInFlight + budget.pending + Probes'
    <3>1. /\ Len(outbox) \in Nat /\ Load \in Nat /\ MaxInFlight \in Nat
          /\ budget.pending \in Nat /\ Probes \in Nat
      BY Zenon
    <3>2. Len(outbox) + 1 + Load <= 1 + MaxInFlight + budget.pending + (Probes + 1)
      BY <1>2, <3>1
    <3> QED BY <3>2, SameSlots, <1>1, <2>1, Zenon DEF KeepaliveWake, wire, Probes
  <2>4. Probes' \in Nat /\ Probes' <= MaxMissed
    BY <1>1, <2>1, <1>6 DEF Probes
  <2> QED
    BY <2>1, <2>3, <2>4, PushedOK, SameSlots, <1>6, <2>2, PushFrame, <1>1, Zenon DEF
         KeepaliveWake, wire
<1> QED BY <1>4, <1>5, <1>6, Zenon DEF KeepaliveWake

LEMMA JoinedPushes ==
  ASSUME Counting, BaseInv, NEW id \in Ids, Joined(id)
  PROVE  /\ id \in DOMAIN flight /\ flight[id].task \in {"ok", "Internal"}
         /\ flight[id].answered => Pushed({}, 0)
         /\ ~flight[id].answered => Pushed({response(id, flight[id].task)}, 1)
<1> USE BaseFacts
<1>1. ASSUME flight[id].answered PROVE Pushed({}, 0)
  BY <1>1, LanesType, CommitPushes DEF finished, Carries, Joined
<1>2. ASSUME ~flight[id].answered PROVE Pushed({response(id, flight[id].task)}, 1)
  BY <1>2, WireAssumption, FrameType, PushFrame, Zenon DEF finished, Answers, NotKnown, Joined,
       FlightTypeOK, Tasks
<1> QED BY <1>1, <1>2, Zenon DEF Joined, FlightTypeOK, Tasks

LEMMA JoinedOK ==
  ASSUME Counting, BaseInv, NEW id \in Ids, Joined(id)
  PROVE  ServerOK'
<1> USE BaseFacts
<1>1. srv = "serving" /\ probe' = probe /\ budget' = budget /\ id \in DOMAIN flight
      /\ promote(Drop(flight, {id}))
  BY Zenon DEF Joined, wire
<1>2. FlightTypeOK' /\ SlotsOK' /\ Load' <= Load - (IF flight[id].answered THEN 0 ELSE 1)
  BY <1>1, JoinSlots, Zenon
<1>3. Load' \in Nat
  BY <1>1, <1>2, LoadBoundNext, Zenon
<1>4. /\ ProbeTypeOK' /\ Probes' = Probes /\ Probes' \in Nat /\ Probes' <= MaxMissed
      /\ srv' = "serving" => probe'.missed < MaxMissed
  BY <1>1, SameProbe, Zenon
<1>5. Len(outbox) + Load <= 1 + MaxInFlight + budget.pending + Probes
  BY Zenon DEF OwedOK
<1>6. CASE flight[id].answered
  <2>1. Pushed({}, 0)
    BY <1>6, JoinedPushes, Zenon
  <2>2. Len(outbox) + 0 + Load' <= 1 + MaxInFlight + budget.pending + Probes'
    BY <1>2, <1>3, <1>4, <1>5, <1>6
  <2> QED BY <1>1, <1>2, <1>4, <2>1, <2>2, PushedOK, Zenon
<1>7. CASE ~flight[id].answered
  <2>1. Pushed({response(id, flight[id].task)}, 1)
    BY <1>7, JoinedPushes, Zenon
  <2>2. Load' + 1 <= Load
    BY <1>2, <1>3, <1>7
  <2>3. Len(outbox) + 1 + Load' <= 1 + MaxInFlight + budget.pending + Probes'
    <3>1. Len(outbox) \in Nat /\ Load \in Nat /\ budget.pending \in Nat /\ MaxInFlight \in Nat
      BY Zenon
    <3> HIDE BaseFacts
    <3> DEFINE room == 1 + MaxInFlight + budget.pending + Probes
    <3>2. room \in Nat
      BY <1>4, <3>1
    <3>3. Len(outbox) + Load <= room /\ room = 1 + MaxInFlight + budget.pending + Probes'
      BY <1>4, <1>5, Zenon
    <3> HIDE DEF room
    <3>4. \A a, b, c, d \in Nat : c + 1 <= b /\ a + b <= d => a + 1 + c <= d
      OBVIOUS
    <3>5. Len(outbox) + 1 + Load' <= room
      BY <1>3, <2>2, <3>1, <3>2, <3>3, <3>4, Zenon
    <3> QED BY <3>3, <3>5, Zenon
  <2> QED BY <1>1, <1>2, <1>4, <2>1, <2>3, PushedOK, Zenon
<1> QED BY <1>6, <1>7, Zenon

LEMMA ExpireOK ==
  ASSUME Counting, BaseInv, NEW due, expire(due)
  PROVE  ServerOK'
<1> USE BaseFacts
<1> DEFINE n == Cardinality({k \in DOMAIN pending : pending[k] \in due}) +
                Cardinality(due \cap DOMAIN flight)
<1>1. FlightTypeOK' /\ SlotsOK' /\ n \in Nat /\ Load' = Load - n
  <2>1. /\ FlightTypeOK' /\ SlotsOK'
        /\ Cardinality({k \in DOMAIN pending : pending[k] \in due}) \in Nat
        /\ Cardinality(due \cap DOMAIN flight) \in Nat
        /\ Load' = Load - (Cardinality({k \in DOMAIN pending : pending[k] \in due}) +
                           Cardinality(due \cap DOMAIN flight))
    BY ExpireSlots, Zenon
  <2> QED BY <2>1
<1>2. Pushed({response(i, "Timeout") : i \in due}, n)
  BY ExpirePushes, Zenon
<1> HIDE DEF n
<1> QED BY <1>1, <1>2, PushedOK, SameProbe DEF expire, wire, OwedOK

\* What the end sends: what was owed, what had finished, and the close.
LEMMA EndFrames ==
  ASSUME Counting, BaseInv, end
  PROVE  /\ control' \in Seq(Frames)
         /\ \A f \in Range(control') :
              \/ f \in Range(control) \cup Range(outbox)
              \/ \E i \in Unanswered : flight[i].task # "running" /\ f = response(i, flight[i].task)
              \/ closing # "none" /\ f = Frame("close", 0, closing)
<1> USE BaseFacts
<1> DEFINE done == {i \in Unanswered : flight[i].task # "running"}
<1>1. PICK order \in Orders(done) :
        LET answers == [k \in DOMAIN order |-> response(order[k], flight[order[k]].task)]
            lanes == [control |-> control, outbox |-> outbox \o answers, end |-> "none"]
            flushed == IF writer = "down" THEN control ELSE Flushed(lanes)
        IN control' = IF closing # "none" /\ writer = "up"
                        THEN Append(flushed, Frame("close", 0, closing)) ELSE flushed
  BY Zenon DEF end
<1> DEFINE answers == [k \in DOMAIN order |-> response(order[k], flight[order[k]].task)]
           lanes == [control |-> control, outbox |-> outbox \o answers, end |-> "none"]
           flushed == IF writer = "down" THEN control ELSE Flushed(lanes)
<1>2. order \in Seq(done) /\ Len(order) \in Nat
  <2>1. IsFiniteSet(done)
    BY LoadBound, CountSubset, Zenon
  <2> HIDE DEF done
  <2> QED BY <2>1, OrdersFacts, Zenon
<1>3. ASSUME NEW i \in done PROVE response(i, flight[i].task) \in Frames
  BY WireAssumption, FrameType, Zenon DEF FlightTypeOK, Tasks, Answers, NotKnown, Unanswered
<1>4. answers \in Seq(Frames)
      /\ \A f \in Range(answers) : \E i \in done : f = response(i, flight[i].task)
  <2>1. DOMAIN order = 1..Len(order) /\ \A k \in 1..Len(order) : order[k] \in done
    BY <1>2
  <2>2. answers \in Seq(Frames)
    BY <1>3, <2>1, <1>2
  <2> QED BY <2>2, <2>1, Zenon DEF Range
<1> HIDE DEF answers
<1>5. flushed \in Seq(Frames)
      /\ Range(flushed) \subseteq Range(control) \cup Range(outbox) \cup Range(answers)
  <2>1. CASE writer = "down"
    BY <2>1, Zenon
  <2>2. CASE writer # "down"
    <3> DEFINE more == outbox \o answers
               room == ControlLane - Len(control) - (IF closing = "none" THEN 0 ELSE 1)
               n == IF Len(more) < room THEN Len(more) ELSE room
    <3>1. flushed = control \o SubSeq(more, 1, n)
      BY <2>2, Zenon DEF Flushed
    <3>2. n \in Int /\ n <= Len(more)
      <4>1. room \in Int
        BY ServerAssumption
      <4> HIDE DEF room
      <4> HIDE DEF more
      <4> QED BY <4>1, <1>4, ConcatRange
    <3> HIDE DEF n, more, flushed
    <3>3. SubSeq(more, 1, n) \in Seq(Frames) /\ Range(SubSeq(more, 1, n)) \subseteq Range(more)
      BY <3>2, PrefixRange, Zenon, <1>4, ConcatRange DEF more
    <3>4. /\ control \o SubSeq(more, 1, n) \in Seq(Frames)
          /\ Range(control \o SubSeq(more, 1, n)) = Range(control) \cup Range(SubSeq(more, 1, n))
      BY <3>3, ConcatRange, Zenon
    <3>5. Range(more) = Range(outbox) \cup Range(answers)
      BY <1>4, ConcatRange, Zenon DEF more
    <3> QED BY <3>1, <3>3, <3>4, <3>5, Zenon
  <2> QED BY <2>1, <2>2, Zenon
<1>6. control' = IF closing # "none" /\ writer = "up"
                   THEN Append(flushed, Frame("close", 0, closing)) ELSE flushed
  BY <1>1, Zenon DEF answers
<1> HIDE DEF flushed
<1>7. CASE closing # "none" /\ writer = "up"
  <2>1. Frame("close", 0, closing) \in Frames
    BY <1>7, Zenon DEF LaneTypeOK, Frame, Frames, Types, Answers
  <2> QED BY <1>4, <1>5, <1>7, <1>6, <2>1, AppendRange
<1>8. CASE ~(closing # "none" /\ writer = "up")
  BY <1>4, <1>5, <1>6, <1>8, Zenon
<1> QED BY <1>7, <1>8, Zenon

LEMMA EndStepOK ==
  ASSUME Counting, BaseInv, end
  PROVE  ServerOK'
<1> USE BaseFacts
<1>1. /\ srv' = "over" /\ closing' = "none" /\ outbox' = << >> /\ flight' = << >> /\ pending' = << >>
      /\ probe' = probe /\ performed' = performed /\ budget' = budget
  BY Zenon DEF end, wire
<1>2. control' \in Seq(Frames)
  BY EndFrames, Zenon
<1>3. LaneTypeOK'
  BY <1>1, <1>2 DEF LaneTypeOK
<1>4. DOMAIN flight' = {} /\ DOMAIN pending' = {} /\ IsFiniteSet({}) /\ Cardinality({}) = 0
  BY <1>1, CountNone
<1>5. FlightTypeOK'
  <2>1. << >> = [i \in {} |-> << >>[i]]
    OBVIOUS
  <2> QED BY <1>1, <1>4, <2>1 DEF FlightTypeOK
<1>6. SlotsOK'
  <2>1. Waiting' = {} /\ Len(pending') = 0
    BY <1>1, EmptyRange, Zenon DEF Waiting
  <2> QED BY <1>1, <1>4, <2>1 DEF SlotsOK
<1>7. OwedOK'
  <2>1. Load' = 0
    <3>1. Unanswered' = {} /\ Len(pending') = 0
      BY <1>1, <1>4, Zenon DEF Unanswered
    <3> QED BY <1>4, <3>1 DEF Load
  <2>2. Len(outbox') = 0
    BY <1>1, Zenon
  <2> QED BY <1>1, <2>1, <2>2, SameProbe DEF OwedOK
<1> QED BY <1>1, <1>3, <1>5, <1>6, <1>7, SameProbe, Zenon DEF ServerOK

LEMMA TaskEndsOK ==
  ASSUME Counting, BaseInv, NEW id, TaskEnds(id)
  PROVE  ServerOK' /\ DOMAIN flight' = DOMAIN flight
<1> USE BaseFacts
<1>1. PICK outcome \in {"ok", "Internal"} : flight' = [flight EXCEPT ![id].task = outcome]
  BY Zenon DEF TaskEnds
<1>2. ASSUME NEW i \in DOMAIN flight
      PROVE  flight'[i] \in Tasks /\ flight'[i].answered = flight[i].answered
  <2>1. CASE i # id
    BY <1>1, <2>1, Zenon DEF FlightTypeOK
  <2>2. CASE i = id
    BY <1>1, <2>2, TaskType, Zenon DEF FlightTypeOK, Tasks
  <2> QED BY <2>1, <2>2, Zenon
<1>3. Load' = Load
  BY <1>2, <1>1, Zenon DEF Unanswered, Load, TaskEnds, wire, FlightTypeOK
<1> QED
  BY <1>3, SameProbe, <1>1, <1>2, Zenon DEF ServerOK, LaneTypeOK, OwedOK, TaskEnds, wire,
       FlightTypeOK, SlotsOK, Waiting

\* The steps that move frames along: out of the outbox, out of the lanes.
LEMMA DrainOK ==
  ASSUME Counting, BaseInv, DrainOutbox
  PROVE  ServerOK' /\ Range(control') \cup Range(outbox') \subseteq Range(control) \cup Range(outbox)
<1> USE BaseFacts
<1>1. /\ outbox # << >> /\ control' = Append(control, Head(outbox)) /\ outbox' = Tail(outbox)
      /\ UNCHANGED <<srv, closing, flight, pending, performed, probe>> /\ budget' = budget
  BY Zenon DEF DrainOutbox, wire
<1>2. FlightTypeOK' /\ SlotsOK' /\ Load' = Load
  BY <1>1, SameSlots, Zenon
<1>3. OwedOK'
  <2>1. Len(outbox) + Load <= 1 + MaxInFlight + budget.pending + Probes
    BY Zenon DEF OwedOK
  <2>2. Len(outbox') = Len(outbox) - 1
    BY <1>1, TailRange, Zenon
  <2>3. Len(outbox') + Load' <= 1 + MaxInFlight + budget'.pending + Probes'
    <3>1. Len(outbox) \in Nat /\ Load \in Nat /\ budget.pending \in Nat /\ MaxInFlight \in Nat
      BY Zenon
    <3>2. Probes \in Nat /\ Probes' = Probes
      BY <1>1, SameProbe, Zenon
    <3> HIDE BaseFacts
    <3> QED BY <1>1, <1>2, <2>1, <2>2, <3>1, <3>2
  <2> QED BY <1>1, <2>3, SameProbe, Zenon DEF OwedOK
<1> QED BY <1>1, <1>2, <1>3, SameProbe, TailRange, AppendRange DEF ServerOK, LaneTypeOK

\* A step that changes neither the outbox, the requests nor the probes.
LEMMA StillOK ==
  ASSUME Counting, BaseInv, control' \in Seq(Frames), budget'.pending = budget.pending,
         UNCHANGED <<srv, closing, flight, pending, performed, probe, outbox>>
  PROVE  ServerOK'
BY BaseFacts, SameSlots, SameProbe, Zenon DEF OwedOK, ServerOK, LaneTypeOK

LEMMA WriteFrames ==
  ASSUME Counting, BaseInv, Write \/ WriteStall
  PROVE  /\ control' \in Seq(Frames) /\ toClient' \in Seq(Frames)
         /\ Range(control') \subseteq Range(control)
         /\ Range(toClient') \subseteq Range(toClient) \cup Range(control) \cup {Frame("event", 0, "none")}
         /\ UNCHANGED <<srv, closing, flight, pending, performed, probe, outbox, session,
                        toServer, budget>>
<1> USE BaseFacts
<1>1. toClient \in Seq(Frames) /\ Frame("event", 0, "none") \in Frames
  BY Zenon DEF BaseInv, IpcTypeOK, WireTypeOK, Frame, Frames, Types
<1>2. control' = << >> => control' \in Seq(Frames) /\ Range(control') \subseteq Range(control)
  BY EmptyRange
<1>3. CASE WriteStall
  BY <1>1, <1>2, <1>3, Zenon DEF WriteStall, WriterStops, Write
<1>4. CASE /\ control # << >>
           /\ toClient' = Append(toClient, Head(control))
           /\ \/ WriterStops("eof")
              \/ control' = Tail(control)
  <2>1. toClient' \in Seq(Frames) /\ Range(toClient') = Range(toClient) \cup {Head(control)}
    BY <1>1, <1>4, AppendRange, TailRange
  <2>2. control' \in Seq(Frames) /\ Range(control') \subseteq Range(control)
    BY <1>2, <1>4, Zenon, TailRange DEF WriterStops
  <2> QED BY <2>1, <2>2, <1>4, TailRange DEF Write, WriteStall
<1>5. CASE /\ toClient' = Append(toClient, Frame("event", 0, "none"))
           /\ control' = control
  BY <1>1, <1>5, AppendRange DEF Write, WriteStall
<1>6. CASE WriterStops("eof") /\ UNCHANGED toClient
  BY <1>1, <1>2, <1>6, Zenon DEF WriterStops, Write, WriteStall
<1> QED BY <1>3, <1>4, <1>5, <1>6, Zenon DEF Write

LEMMA ServerStepOK ==
  ASSUME Counting, BaseInv, ServerNext
  PROVE  ServerOK'
<1> USE BaseFacts
<1>1. CASE ReadFrame
  BY <1>1, ReadFrameOK, Zenon
<1>2. CASE ReadEnd
  BY <1>2, EndOK, Zenon DEF Ends, ReadEnd, Reading, wire
<1>3. CASE LaneClosed
  BY <1>3, EndOK, Zenon DEF Ends, LaneClosed, wire
<1>4. CASE Stop
  BY <1>4, EndOK, Zenon DEF Ends, NotKnown, Stop, wire
<1>5. CASE DrainOutbox
  BY <1>5, DrainOK, Zenon
<1>6. CASE KeepaliveWake
  BY <1>6, KeepaliveOK, Zenon
<1>7. CASE pump
  BY <1>7, StillOK, Zenon DEF pump, BaseInv, IpcTypeOK, WireTypeOK
<1>8. CASE end
  BY <1>8, EndStepOK, Zenon
<1>9. CASE Write \/ WriteStall
  BY <1>9, WriteFrames, StillOK, Zenon
<1>10. CASE Hangup
  BY <1>10, StillOK, Zenon DEF Hangup, server
<1>11. CASE \E i \in Ids : TaskEnds(i) \/ Joined(i)
  BY <1>11, TaskEndsOK, JoinedOK, Zenon
<1>12. CASE \E due \in SUBSET Ids : expire(due)
  BY <1>12, ExpireOK, Zenon
<1> QED
  BY <1>1, <1>2, <1>3, <1>4, <1>5, <1>6, <1>7, <1>8, <1>9, <1>10, <1>11, <1>12, Zenon DEF
       ServerNext

\* A queue that loses its head asks for no more than before.
LEMMA AskedTail ==
  ASSUME NEW q \in Seq(Frames), q # << >>
  PROVE  /\ Asked(Tail(q)) \subseteq Asked(q)
         /\ Head(q).type = "request" => Head(q).id \in Asked(q)
         /\ Asked(q) = Asked(Tail(q)) \cup
              (IF Head(q).type = "request" THEN {Head(q).id} ELSE {})
         /\ OneEach(q) =>
              /\ OneEach(Tail(q))
              /\ Head(q).type = "request" => Head(q).id \notin Asked(Tail(q))
<1>1. \A k \in DOMAIN q : k # 1 => k - 1 \in DOMAIN Tail(q) /\ (k - 1) + 1 = k
  OBVIOUS
<1>2. ASSUME NEW i \in Asked(q) PROVE i \in Asked(Tail(q)) \/ (Head(q).type = "request" /\ i = Head(q).id)
  BY <1>2, <1>1, TailRange DEF Asked
<1>3. ASSUME OneEach(q) PROVE OneEach(Tail(q))
  BY <1>3, TailRange DEF OneEach
<1>4. ASSUME OneEach(q), Head(q).type = "request" PROVE Head(q).id \notin Asked(Tail(q))
  BY <1>4, TailRange, Zenon DEF Asked, OneEach
<1> QED BY <1>2, <1>3, <1>4, TailRange DEF Asked

LEMMA AskedAppend ==
  ASSUME NEW q \in Seq(Frames), NEW f \in Frames
  PROVE  /\ Asked(Append(q, f)) = Asked(q) \cup (IF f.type = "request" THEN {f.id} ELSE {})
         /\ OneEach(q) /\ (f.type = "request" => f.id \notin Asked(q)) => OneEach(Append(q, f))
<1> DEFINE a == Append(q, f)
<1>1. /\ \A k \in DOMAIN q : k \in DOMAIN a /\ a[k] = q[k] /\ k # Len(q) + 1
      /\ Len(q) + 1 \in DOMAIN a /\ a[Len(q) + 1] = f
      /\ \A k \in DOMAIN a : k \in DOMAIN q \/ k = Len(q) + 1
  OBVIOUS
<1> HIDE DEF a
<1>2. ASSUME OneEach(q), f.type = "request" => f.id \notin Asked(q) PROVE OneEach(a)
  BY <1>1, <1>2, Zenon DEF OneEach, Asked
<1> QED BY <1>2, <1>1, Zenon DEF a, Asked

LEMMA ServerWireOK ==
  ASSUME Counting, BaseInv, ServerNext
  PROVE  WireTypeOK'
<1>1. CASE UNCHANGED <<toServer, toClient, budget>>
  BY <1>1, Zenon DEF WireTypeOK, BaseInv, IpcTypeOK
<1>2. CASE ReadFrame
  BY <1>2, TailRange, AskedTail, Zenon DEF ReadFrame, WireTypeOK, BaseInv, IpcTypeOK
<1>3. CASE pump
  BY <1>3 DEF pump, WireTypeOK, BaseInv, IpcTypeOK
<1>4. CASE Write \/ WriteStall
  BY <1>4, WriteFrames, Zenon DEF WireTypeOK, BaseInv, IpcTypeOK
<1>5. CASE Hangup
  BY <1>5, EmptyRange DEF Hangup, WireTypeOK, BaseInv, IpcTypeOK
<1>6. CASE ReadEnd \/ LaneClosed \/ Stop \/ DrainOutbox \/ KeepaliveWake \/ end
  BY <1>1, <1>6, Zenon DEF ReadEnd, LaneClosed, Stop, DrainOutbox, KeepaliveWake, end, wire
<1>7. CASE \E i \in Ids : TaskEnds(i) \/ Joined(i)
  BY <1>1, <1>7, Zenon DEF TaskEnds, Joined, wire
<1>8. CASE \E due \in SUBSET Ids : expire(due)
  BY <1>1, <1>8, Zenon DEF expire, wire
<1> QED BY <1>2, <1>3, <1>4, <1>5, <1>6, <1>7, <1>8, Zenon DEF ServerNext

-----------------------------------------------------------------------------
(* The client's steps: what they do to its queue and its calls. *)

LEMMA ClientFacts ==
  ASSUME BaseInv
  PROVE  /\ out \in Seq(Frames) /\ toServer \in Seq(Frames) /\ toClient \in Seq(Frames)
         /\ Asked(out) \subseteq Ids /\ Asked(toServer) \subseteq Ids /\ Ids \subseteq Nat
         /\ call \in [Ids -> {"idle", "registered", "sent", "abandoned"} \cup Answers]
         /\ ended \in {"none"} \cup NotKnown /\ provisional \in BOOLEAN
         /\ echo \in Nat /\ buffer \in Nat /\ WireTypeOK /\ ClientTypeOK
BY WireAssumption, Zenon DEF BaseInv, IpcTypeOK, WireTypeOK, ClientTypeOK

\* A reader's end: every call still out is answered with a code of the end.
LEMMA ReaderEnds ==
  ASSUME BaseInv, NEW code \in NotKnown, NEW clean, endByReader(code, clean)
  PROVE  /\ ended' \in NotKnown /\ provisional' = FALSE
         /\ call' = [i \in Ids |-> IF i \in Outstanding THEN ended' ELSE call[i]]
         /\ call' \in [Ids -> {"idle", "registered", "sent", "abandoned"} \cup Answers]
BY ClientFacts, Zenon DEF endByReader, Answers

\* The frames a client puts on its queue or on the socket.
LEMMA ClientFrames ==
  ASSUME NEW i \in Nat
  PROVE  /\ Frame("request", i, "none") \in Frames /\ Frame("cancel", i, "none") \in Frames
         /\ Frame("pong", i, "none") \in Frames /\ Frame("finish", i, "none") \in Frames
         /\ Frame("request", i, "none").type = "request" /\ Frame("request", i, "none").id = i
         /\ Frame("cancel", i, "none").type = "cancel" /\ Frame("pong", i, "none").type = "pong"
         /\ Frame("finish", i, "none").type = "finish"
BY Zenon DEF Frame, Frames, Types

\* The writer's step: its queue is dropped, its echo goes out, or the head of
\* its queue does.
LEMMA WriterMoves ==
  ASSUME BaseInv, writeLoop
  PROVE  /\ UNCHANGED <<call, toClient, budget, buffer>>
         /\ \/ out' = << >> /\ toServer' = toServer /\ echo' = 0
            \/ /\ echo # 0 /\ out' = out /\ echo' = 0
               /\ toServer' = Append(toServer, Frame("pong", echo, "none"))
            \/ /\ out # << >> /\ out' = Tail(out) /\ echo' = echo
               /\ toServer' = Append(toServer, Head(out))
         /\ \/ UNCHANGED <<ended, provisional>>
            \/ endByWriter
BY Zenon DEF writeLoop, endByWriter, WriterStop

LEMMA WriterOK ==
  ASSUME BaseInv, writeLoop
  PROVE  WireTypeOK' /\ ClientTypeOK'
<1> USE ClientFacts
<1>1. ended' \in {"none"} \cup NotKnown /\ provisional' \in BOOLEAN
  BY WriterMoves, Zenon DEF endByWriter, NotKnown
<1>2. CASE out' = << >> /\ toServer' = toServer /\ echo' = 0
  BY <1>1, <1>2, EmptyRange, WriterMoves DEF WireTypeOK, ClientTypeOK
<1>3. CASE /\ echo # 0 /\ out' = out /\ echo' = 0
           /\ toServer' = Append(toServer, Frame("pong", echo, "none"))
  <2>1. toServer' \in Seq(Frames) /\ Asked(toServer') = Asked(toServer)
    <3>1. Frame("pong", echo, "none") \in Frames /\ Frame("pong", echo, "none").type = "pong"
      BY ClientFrames, Zenon
    <3> QED BY <1>3, <3>1, AppendRange, AskedAppend, Zenon
  <2> QED BY <1>1, <1>3, <2>1, WriterMoves, Zenon DEF WireTypeOK, ClientTypeOK
<1>4. CASE /\ out # << >> /\ out' = Tail(out) /\ echo' = echo
           /\ toServer' = Append(toServer, Head(out))
  <2>1. toServer' \in Seq(Frames) /\ Asked(toServer') \subseteq Ids
    BY <1>4, AppendRange, AskedAppend, TailRange, AskedTail
  <2> QED
    BY <1>1, <1>4, <2>1, WriterMoves, TailRange, AskedTail DEF WireTypeOK, ClientTypeOK
<1> QED BY <1>2, <1>3, <1>4, WriterMoves, Zenon

\* The reader's step on a frame: an answer to a call, or the connection's end.
LEMMA ReaderMoves ==
  ASSUME BaseInv, ReadNext
  PROVE  LET f == Head(toClient) IN
         /\ toClient # << >> /\ toClient' = Tail(toClient) /\ UNCHANGED <<toServer, budget, out>>
         /\ f \in Frames /\ f \in Range(toClient)
         /\ \/ /\ f.type = "response" /\ UNCHANGED <<ended, provisional, echo, buffer>>
               /\ call' = IF f.id \in Outstanding THEN [call EXCEPT ![f.id] = f.code] ELSE call
            \/ /\ UNCHANGED <<call, ended, provisional>>
               /\ echo' \in {echo, f.id} /\ buffer' \in {buffer, buffer + 1}
            \/ /\ \E code \in NotKnown : endByReader(code, FALSE)
               /\ UNCHANGED <<echo, buffer>>
<1> USE ClientFacts
<1> DEFINE f == Head(toClient)
<1>1. f.type = "close" => f.code \in NotKnown
  BY TailRange DEF Frames, ReadNext
<1>2. CASE f.type = "response"
  BY <1>2, Zenon, TailRange DEF ReadNext
<1>3. CASE f.type = "event"
  BY <1>3, TailRange, Zenon DEF ReadNext, takeEvent, discardEvent, overflowEvent, ReaderOver,
       holdEvent, NotKnown
<1>4. CASE f.type = "ping"
  BY <1>4, Zenon, TailRange DEF ReadNext
<1>5. CASE f.type = "close"
  BY <1>1, <1>5, Zenon, TailRange DEF ReadNext, ReaderOver
<1> QED BY <1>2, <1>3, <1>4, <1>5, Zenon DEF ReadNext

LEMMA ReadNextOK ==
  ASSUME BaseInv, ReadNext
  PROVE  WireTypeOK' /\ ClientTypeOK'
<1> USE ClientFacts
<1> DEFINE f == Head(toClient)
<1>1. WireTypeOK'
  BY TailRange, ReaderMoves, Zenon DEF WireTypeOK
<1>2. CASE /\ f.type = "response" /\ UNCHANGED <<ended, provisional, echo, buffer>>
           /\ call' = IF f.id \in Outstanding THEN [call EXCEPT ![f.id] = f.code] ELSE call
  BY <1>1, <1>2, Zenon, ReaderMoves DEF ClientTypeOK, Frames
<1>3. CASE /\ UNCHANGED <<call, ended, provisional>>
           /\ echo' \in {echo, f.id} /\ buffer' \in {buffer, buffer + 1}
  BY <1>1, <1>3, ReaderMoves DEF ClientTypeOK, Frames
<1>4. CASE /\ \E code \in NotKnown : endByReader(code, FALSE)
           /\ UNCHANGED <<echo, buffer>>
  BY <1>4, ReaderEnds, <1>1, ReaderMoves, Zenon DEF ClientTypeOK
<1> QED BY <1>2, <1>3, <1>4, ReaderMoves, Zenon

\* The reader's other steps leave the socket alone.
LEMMA QuietReader ==
  ASSUME BaseInv, ReadHeld \/ ReadEnds \/ Silence
  PROVE  /\ UNCHANGED <<wire, out, echo>> /\ buffer' \in {buffer, buffer + 1}
         /\ \/ UNCHANGED <<call, ended, provisional>>
            \/ \E code \in NotKnown, clean \in {TRUE, FALSE} : endByReader(code, clean)
BY Zenon DEF NotKnown, ReadHeld, takeEvent, discardEvent, overflowEvent, ReaderOver, ReadEnds,
     sessionVars, Silence

LEMMA QuietOK ==
  ASSUME BaseInv, ReadHeld \/ ReadEnds \/ Silence
  PROVE  WireTypeOK' /\ ClientTypeOK'
<1> USE ClientFacts
<1>1. UNCHANGED <<wire, out, echo>> /\ buffer' \in {buffer, buffer + 1}
  BY QuietReader, Zenon
<1>2. buffer' \in Nat
  <2>1. buffer \in Nat
    BY Zenon
  <2> HIDE ClientFacts
  <2> QED BY <1>1, <2>1
<1>3. CASE UNCHANGED <<call, ended, provisional>>
  BY <1>1, <1>2, <1>3, Zenon DEF ClientTypeOK, WireTypeOK, wire, Asked
<1>4. CASE \E code \in NotKnown, clean \in {TRUE, FALSE} : endByReader(code, clean)
  BY <1>1, <1>2, <1>4, ReaderEnds, Zenon DEF ClientTypeOK, WireTypeOK, wire, Asked
<1> QED BY <1>3, <1>4, Zenon, QuietReader

\* Steps of the session and of a close that concern no call.
AsideStep ==
  \/ StartDraining \/ wakeAll \/ readyEnable \/ readyCheck \/ readyAwait \/ close \/ closeReturns

LEMMA AsideOK ==
  ASSUME BaseInv, AsideStep
  PROVE  /\ UNCHANGED <<wire, call, out, ended, provisional>>
         /\ WireTypeOK' /\ ClientTypeOK'
<1> USE ClientFacts
<1> QED
  BY DEF WireTypeOK, ClientTypeOK, wire, AsideStep, StartDraining, wakeAll, readyEnable,
       readyCheck, readyAwait, close, closeReturns, tasks, sessionVars

\* A command is issued, sent, or dropped; the connection is left.
LEMMA CallOK ==
  ASSUME BaseInv, NEW i \in Ids, register(i) \/ exchange(i) \/ CancelOnDrop(i)
  PROVE  WireTypeOK' /\ ClientTypeOK'
<1> USE ClientFacts
<1>1. CASE register(i)
  BY <1>1, Zenon DEF register, hasEnded, EndedFor, ClientTypeOK, Answers, exchange,
       CancelOnDrop, tasks, sessionVars, WireTypeOK, wire
<1>2. CASE exchange(i)
  <2>1. out' \in Seq(Frames) /\ Asked(out') \subseteq Ids
    <3> DEFINE g == Frame("request", i, "none")
    <3>1. g \in Frames /\ g.id \in Ids
      BY ClientFrames, Zenon DEF Frame
    <3> HIDE DEF g
    <3>2. Append(out, g) \in Seq(Frames) /\ Asked(Append(out, g)) \subseteq Asked(out) \cup {g.id}
      BY <3>1, AppendRange, AskedAppend, Zenon
    <3> QED BY <3>1, <3>2, Zenon, <1>2 DEF g, exchange
  <2> QED
    BY <2>1, <1>2, Zenon DEF ClientTypeOK, register, exchange, CancelOnDrop, tasks,
         sessionVars, WireTypeOK, wire
<1>3. CASE CancelOnDrop(i)
  <2>1. out' \in Seq(Frames) /\ Asked(out') \subseteq Ids
    <3> DEFINE g == Frame("cancel", i, "none")
    <3>1. g \in Frames /\ g.id \in Ids
      BY ClientFrames, Zenon DEF Frame
    <3> HIDE DEF g
    <3>2. Append(out, g) \in Seq(Frames) /\ Asked(Append(out, g)) \subseteq Asked(out) \cup {g.id}
      BY <3>1, AppendRange, AskedAppend, Zenon
    <3> QED BY <3>1, <3>2, Zenon, <1>3 DEF g, CancelOnDrop
  <2> QED
    BY <2>1, <1>3, Zenon DEF ClientTypeOK, register, exchange, CancelOnDrop, tasks,
         sessionVars, WireTypeOK, wire
<1> QED BY <1>1, <1>2, <1>3, Zenon

LEMMA LeaveOK ==
  ASSUME BaseInv, closeAsks \/ dropped
  PROVE  /\ UNCHANGED <<call, toServer, budget, ended, provisional>>
         /\ toClient' \in {toClient, << >>} /\ Asked(out') \subseteq Asked(out)
         /\ OneEach(out) => OneEach(out')
         /\ WireTypeOK' /\ ClientTypeOK'
<1> USE ClientFacts
<1>1. out' \in Seq(Frames) /\ Asked(out') \subseteq Asked(out) /\ (OneEach(out) => OneEach(out'))
  <2> DEFINE g == Frame("finish", 0, "none")
  <2>1. out' \in {out, << >>, Append(out, g)}
    BY Zenon DEF closeAsks, dropped
  <2>2. g \in Frames /\ g.type # "request"
    BY ClientFrames, Zenon
  <2> HIDE DEF g
  <2>3. Append(out, g) \in Seq(Frames) /\ Asked(Append(out, g)) = Asked(out)
        /\ (OneEach(out) => OneEach(Append(out, g)))
    BY <2>2, AppendRange, AskedAppend, Zenon
  <2>4. << >> \in Seq(Frames)
    OBVIOUS
  <2> QED BY <2>1, <2>3, <2>4, EmptyRange, Zenon
<1>2. WireTypeOK'
  <2>1. << >> \in Seq(Frames)
    OBVIOUS
  <2> QED BY <2>1, Zenon DEF WireTypeOK, closeAsks, dropped, wire, tasks, sessionVars
<1>3. /\ UNCHANGED <<call, toServer, budget, ended, provisional>>
      /\ toClient' \in {toClient, << >>} /\ echo' \in {echo, 0} /\ buffer' \in {buffer, 0}
  BY Zenon DEF closeAsks, dropped, wire, tasks, sessionVars
<1>4. echo' \in Nat /\ buffer' \in Nat
  BY <1>3 DEF ClientTypeOK
<1>5. ClientTypeOK'
  BY <1>1, <1>3, <1>4, Zenon DEF ClientTypeOK
<1> QED BY <1>1, <1>2, <1>3, <1>5, Zenon

LEMMA ClientStepOK ==
  ASSUME BaseInv, ClientNext
  PROVE  WireTypeOK' /\ ClientTypeOK' /\ budget' = budget
<1>1. CASE writeLoop
  BY <1>1, WriterOK, WriterMoves, Zenon
<1>2. CASE ReadNext
  BY <1>2, ReadNextOK, ReaderMoves, Zenon
<1>3. CASE ReadHeld \/ ReadEnds \/ Silence
  BY <1>3, QuietOK, QuietReader, Zenon DEF wire
<1>4. CASE AsideStep
  BY <1>4, AsideOK, Zenon DEF wire
<1>5. CASE closeAsks \/ dropped
  BY <1>5, LeaveOK, Zenon
<1>6. CASE \E i \in Ids : register(i) \/ exchange(i) \/ CancelOnDrop(i)
  BY <1>6, CallOK, Zenon DEF register, exchange, CancelOnDrop, wire
<1> QED BY <1>1, <1>2, <1>3, <1>4, <1>5, <1>6, Zenon DEF ClientNext, AsideStep

LEMMA BaseInit == Counting /\ Init => BaseInv
<1> SUFFICES ASSUME Counting, Init PROVE BaseInv
  BY Zenon
<1>1. FlightTypeOK /\ SlotsOK /\ Load = 0
  <2>1. /\ flight = << >> /\ pending = << >> /\ performed = {} /\ budget.pending \in Nat
    BY WireAssumption, Zenon DEF Init, ServerInit, WireInit
  <2>2. /\ DOMAIN flight = {} /\ DOMAIN pending = {} /\ Len(pending) = 0 /\ Waiting = {}
        /\ << >> = [i \in {} |-> << >>[i]]
    BY <2>1, EmptyRange DEF Waiting
  <2>3. IsFiniteSet({}) /\ Cardinality({}) = 0
    BY CountNone, Zenon
  <2>4. Unanswered = {}
    BY <2>2, Zenon DEF Unanswered
  <2>5. MaxInFlight \in Nat /\ MaxInFlight >= 0
    BY ServerAssumption
  <2> QED BY <2>1, <2>2, <2>3, <2>4, <2>5 DEF FlightTypeOK, SlotsOK, Load
<1>2. OwedOK
  <2>1. outbox = << >> /\ probe = [outstanding |-> 0, missed |-> 0, sent |-> 0]
    BY Zenon DEF Init, ServerInit
  <2>2. Probes = 0 /\ probe.missed = 0 /\ Len(outbox) = 0
    BY <2>1 DEF Probes
  <2>3. budget.pending \in Nat
    BY WireAssumption, Zenon DEF Init, WireInit
  <2>4. MaxInFlight \in Nat /\ MaxMissed \in Nat \ {0}
    BY ServerAssumption
  <2> QED BY <1>1, <2>2, <2>3, <2>4 DEF OwedOK
<1>3. ClientTypeOK
  <2>1. provisional \in BOOLEAN
    BY Zenon DEF Init, ClientInit
  <2> QED BY <2>1, EmptyRange DEF ClientTypeOK, Init, ClientInit
<1> QED
  BY <1>1, <1>2, <1>3, WireAssumption, EmptyRange DEF BaseInv, IpcTypeOK, Init,
       WireInit, WireTypeOK, ServerInit, LaneTypeOK, ProbeTypeOK

LEMMA BaseStep == Counting /\ BaseInv /\ [Next]_vars => BaseInv'
<1> SUFFICES ASSUME Counting, BaseInv, [Next]_vars PROVE BaseInv'
  BY Zenon
<1>1. CASE ServerNext /\ UNCHANGED client
  BY <1>1, ServerStepOK, ServerWireOK, ClientFacts, Zenon DEF client, ClientTypeOK, ServerOK,
       BaseInv, IpcTypeOK
<1>2. CASE ClientNext /\ UNCHANGED server
  BY <1>2, ClientStepOK, StillOK, BaseFacts, Zenon DEF server, ServerOK, BaseInv, IpcTypeOK
<1>3. CASE UNCHANGED vars
  BY <1>3, ClientFacts, StillOK, BaseFacts, Zenon DEF vars, wire, client, WireTypeOK,
       ClientTypeOK, server, ServerOK, BaseInv, IpcTypeOK
<1> QED BY <1>1, <1>2, <1>3, Zenon DEF Next

-----------------------------------------------------------------------------
(* No wake-up is lost. *)

\* A step that leaves the session's view of the connection alone.
LEMMA SameView ==
  ASSUME WakeOK, UNCHANGED <<consumer, woken, wakeOwed, buffer, ended, provisional>>
  PROVE  WakeOK'
BY Zenon DEF WakeOK, hasEnded, EndedFor

LEMMA WakeReader ==
  ASSUME WakeOK, ReadNext \/ ReadHeld \/ ReadEnds \/ Silence
  PROVE  WakeOK'
BY SameView, Zenon DEF WakeOK, ReaderOver, endByReader, takeEvent, overflowEvent, ReadNext,
     discardEvent, holdEvent, ReadHeld, ReadEnds, Silence

LEMMA WakeWriter ==
  ASSUME WakeOK, writeLoop
  PROVE  WakeOK'
BY SameView, Zenon DEF writeLoop, endByWriter, WakeOK

LEMMA WakeStep ==
  BaseInv /\ WakeOK /\ [Next]_vars => WakeOK'
<1> SUFFICES ASSUME BaseInv, WakeOK, [Next]_vars PROVE WakeOK'
  BY Zenon
<1>1. CASE UNCHANGED client
  BY <1>1, SameView, Zenon DEF client
<1>2. CASE writeLoop
  BY <1>2, WakeWriter, Zenon
<1>3. CASE ReadNext \/ ReadHeld \/ ReadEnds \/ Silence
  BY <1>3, WakeReader, Zenon
<1>4. CASE StartDraining \/ closeAsks \/ closeReturns
  BY <1>4, SameView, Zenon DEF StartDraining, closeAsks, closeReturns, sessionVars
<1>5. CASE \E i \in Ids : register(i) \/ exchange(i) \/ CancelOnDrop(i)
  BY <1>5, SameView, Zenon DEF register, exchange, CancelOnDrop, sessionVars
<1>6. CASE wakeAll
  BY <1>6, Zenon DEF wakeAll, WakeOK
<1>7. CASE readyEnable
  BY <1>7, Zenon DEF readyEnable, WakeOK
<1>8. CASE readyCheck
  BY <1>8, ClientFacts DEF readyCheck, WakeOK, hasEnded, EndedFor
<1>9. CASE readyAwait
  BY <1>9, Zenon DEF readyAwait, WakeOK, hasEnded, EndedFor
<1>10. CASE close \/ dropped
  BY <1>10, Zenon DEF close, dropped, WakeOK
<1> QED
  BY <1>1, <1>2, <1>3, <1>4, <1>5, <1>6, <1>7, <1>8, <1>9, <1>10, Zenon DEF Next, ClientNext,
       vars

-----------------------------------------------------------------------------
(* What the server's steps do to the commands and to what is said of them. *)

\* A request that is asked may come to wait, one asked or waiting may be
\* performed, and any of them may be dropped.
Moves ==
  /\ OneEach(toServer')
  /\ Asked(toServer') \subseteq Asked(toServer)
  /\ Waiting' \subseteq Waiting \cup (Asked(toServer) \ Asked(toServer'))
  /\ \/ performed' = performed
     \/ \E i \in (Asked(toServer) \cup Waiting) \ (Asked(toServer') \cup Waiting') :
          performed' = performed \cup {i}
  /\ DOMAIN flight' \subseteq performed'

\* What is newly owed is true, and no close goes before the session's.
News ==
  /\ \A f \in Owed' : \/ f \in Owed
                      \/ /\ Says(f, performed', Open', Fresh)
                         /\ f.type = "close" => session' = "closed"
  /\ session = "closed" => session' = "closed"

\* What was said stays true.
LEMMA SaysStays ==
  ASSUME NEW done, NEW open, NEW fresh, NEW done2, NEW open2, NEW fresh2,
         NEW f, Says(f, done, open, fresh), done \subseteq done2, done2 \subseteq done \cup open,
         open2 \subseteq open \cup fresh, fresh2 \subseteq fresh
  PROVE  Says(f, done2, open2, fresh2)
BY Zenon DEF Says

LEMMA FlowServer ==
  ASSUME FlowOK, UNCHANGED <<out, call>>, Moves, News
  PROVE  FlowOK'
<1>1. Fresh' = Fresh /\ Asked(out') = Asked(out) /\ OneEach(out')
  BY Zenon DEF Fresh, FlowOK
<1>2. Open' \subseteq Open
  BY <1>1, Zenon DEF Open, Moves
<1>3. performed \subseteq performed' /\ performed' \subseteq performed \cup Open
  BY Zenon DEF Moves, Open
<1>4. Open' \cap performed' = {}
  <2>1. CASE performed' = performed
    BY <1>2, <2>1, Zenon DEF FlowOK
  <2>2. ASSUME NEW i \in (Asked(toServer) \cup Waiting) \ (Asked(toServer') \cup Waiting'),
               performed' = performed \cup {i}
        PROVE  Open' \cap performed' = {}
    <3>1. i \notin Asked(out)
      BY Zenon DEF FlowOK
    <3>2. i \notin Open'
      BY <1>1, <3>1, Zenon DEF Open
    <3> QED BY <1>2, <2>2, <3>2, Zenon DEF FlowOK
  <2> QED BY <2>1, <2>2, Zenon DEF Moves
<1>5. \A f \in Owed' : Says(f, performed', Open', Fresh')
  <2> SUFFICES ASSUME NEW f \in Owed' PROVE Says(f, performed', Open', Fresh')
    BY Zenon
  <2>1. CASE f \in Owed
    <3>1. Says(f, performed, Open, Fresh)
      BY <2>1, Zenon DEF FlowOK
    <3> QED BY <1>1, <1>2, <1>3, <3>1, SaysStays, Zenon
  <2>2. CASE f \notin Owed
    BY <1>1, <2>2, Zenon DEF News
  <2> QED BY <2>1, <2>2, Zenon
<1>6. /\ Asked(out') \cap Asked(toServer') = {}
      /\ (Asked(out') \cup Asked(toServer')) \cap Waiting' = {}
  BY <1>1, Zenon DEF FlowOK, Moves
<1>7. Fresh' \cap (Open' \cup performed') = {}
  BY <1>1, <1>2, <1>3, Zenon DEF FlowOK
<1>8. \A i \in Open' : call'[i] \notin Refused
  BY <1>2, Zenon DEF FlowOK
<1>9. OneEach(toServer') /\ DOMAIN flight' \subseteq performed' /\ Open' \subseteq Ids
  BY <1>2, Zenon DEF FlowOK, Moves
<1> QED BY <1>1, <1>4, <1>5, <1>6, <1>7, <1>8, <1>9, Zenon DEF FlowOK

LEMMA ClosedServer ==
  ASSUME ClosedOK, News
  PROVE  ClosedOK'
BY Zenon DEF ClosedOK, News

\* Steps that touch neither the requests nor the queue they come from.
LEMMA StillMoves ==
  ASSUME FlowOK, UNCHANGED <<toServer, pending, performed, flight>>
  PROVE  Moves
BY Zenon DEF FlowOK, Moves, Waiting

\* A step that pushes frames the conditions of News allow.
LEMMA PushNews ==
  ASSUME NEW new, NEW n, Pushed(new, n), toClient' = toClient, session' = session,
         \A f \in new : Says(f, performed', Open', Fresh) /\ f.type # "close"
  PROVE  News
BY Zenon DEF Pushed, News, Owed

LEMMA EndNews ==
  ASSUME BaseInv, NEW e \in Ends \ {"none"}, EndWith(e), UNCHANGED <<toClient, session>>
  PROVE  News
BY TypeFacts, EndPushes, PushNews

LEMMA ResponseParts ==
  ASSUME NEW id, NEW code
  PROVE  /\ response(id, code).type = "response" /\ response(id, code).id = id
         /\ response(id, code).code = code
BY Zenon DEF response, Frame

\* The three things an answer can say.
LEMMA SaysOf ==
  ASSUME NEW id \in Ids, NEW code, NEW done, NEW open, NEW fresh, id \notin fresh,
         code = "ok" => id \in done, code \in Refused => id \notin done \cup open
  PROVE  Says(response(id, code), done, open, fresh) /\ response(id, code).type # "close"
BY ResponseParts DEF Says

FlowInv == BaseInv /\ FlowOK

\* Where a command that was taken from the socket, waits or is in flight is.
LEMMA FlowFacts ==
  ASSUME FlowInv
  PROVE  /\ BaseInv /\ FlowOK /\ Waiting \subseteq Ids /\ Unanswered \subseteq DOMAIN flight
         /\ DOMAIN flight \subseteq performed /\ performed \subseteq Ids
         /\ \A i \in performed : i \notin Fresh
         /\ \A i \in Open : i \in Ids /\ i \notin Fresh /\ i \notin performed
         /\ Waiting \subseteq Open /\ Asked(toServer) \subseteq Open
BY TypeFacts, Zenon DEF FlowInv, FlowOK, FlightTypeOK, Unanswered, Open

LEMMA RequestFlow ==
  ASSUME FlowInv, Reading, toServer # << >>, Head(toServer).type = "request",
         request(Head(toServer).id), toServer' = Tail(toServer), toClient' = toClient,
         budget' = budget, out' = out
  PROVE  Moves /\ News
<1> DEFINE id == Head(toServer).id
<1> USE FlowFacts
<1>1. toServer \in Seq(Frames) /\ session' = session
  BY ClientFacts, Zenon DEF request
<1>2. /\ id \in Asked(toServer) /\ Asked(toServer') \subseteq Asked(toServer)
      /\ OneEach(toServer') /\ id \notin Asked(toServer')
  BY <1>1, AskedTail, Zenon DEF FlowOK
<1>3. request(id)
  BY Zenon
<1> HIDE DEF id
<1>4. ASSUME NEW code \in Refused, respond(id, code), UNCHANGED <<flight, pending, performed>>
      PROVE  Moves /\ News
  <2>1. Pushed({response(id, code)}, 1)
    BY <1>4, TypeFacts, RespondPushes, <1>2, WireAssumption, Zenon DEF FlowOK, Refused, Answers
  <2>2. Says(response(id, code), performed', Open', Fresh) /\ response(id, code).type # "close"
    BY SaysOf, <1>2, WireAssumption, <1>4, Zenon DEF FlowOK, Open, Waiting, Refused, Answers
  <2> QED BY <1>1, <2>1, <2>2, PushNews, <1>2, <1>4 DEF Moves, Waiting
<1>5. CASE respond(id, "CapabilityDenied") /\ UNCHANGED <<flight, pending, performed>>
  BY <1>4, <1>5, Zenon DEF Refused
<1>6. CASE Overload(id)
  BY <1>4, <1>6, Zenon DEF Overload, Refused
<1>7. CASE /\ HasSlot
            /\ flight' = [i \in DOMAIN flight \cup {id} |->
                            IF i = id THEN Task(FALSE) ELSE flight[i]]
            /\ performed' = performed \cup {id}
            /\ UNCHANGED <<pending, control, outbox, srv, closing>>
  BY <1>7, SameLanes, <1>1, PushNews, <1>2, WireAssumption, Zenon DEF Waiting, Moves, FlowOK,
       Reading
<1>8. CASE /\ ~HasSlot
            /\ Len(pending) < budget.pending
            /\ pending' = Append(pending, id)
            /\ UNCHANGED <<flight, performed, control, outbox, srv, closing>>
  <2>1. Waiting' = Waiting \cup {id}
    BY TypeFacts, <1>8, AppendRange, <1>2, WireAssumption DEF FlightTypeOK, Waiting,
         FlowOK
  <2> QED BY <1>1, PushNews, <1>8, SameLanes, <1>2, <2>1 DEF Reading, Moves
<1> QED BY <1>3, <1>5, <1>6, <1>7, <1>8, Zenon, <1>2, WireAssumption DEF request, FlowOK

LEMMA CancelFlow ==
  ASSUME Counting, FlowInv, Reading, NEW id \in Nat, cancel(id), toClient' = toClient, budget' = budget,
         Asked(toServer') = Asked(toServer), OneEach(toServer'), out' = out
  PROVE  Moves /\ News
<1> USE FlowFacts
<1>1. CASE id \in Waiting
  <2>1. Pushed({response(id, "CancelledBeforeDispatch")}, 1)
    BY BaseFacts, RespondPushes, <1>1, Zenon DEF cancel, Answers, Refused
  <2>2. /\ Says(response(id, "CancelledBeforeDispatch"), performed', Open', Fresh)
        /\ response(id, "CancelledBeforeDispatch").type # "close"
    BY SaysOf, <1>1, CancelSlots, Zenon DEF FlowOK, Open, cancel, Reading
  <2> QED BY <2>1, <2>2, PushNews, <1>1, CancelSlots DEF cancel, Reading, Moves
<1>2. CASE id \notin Waiting /\ id \in Unanswered
  <2>1. Moves
    BY <1>2, CancelSlots, Zenon DEF Moves, cancel, Reading
  <2>2. Pushed({response(id, "CancellationRaced")}, 1)
    BY BaseFacts, RespondPushes, <1>2, Zenon DEF cancel, Answers, NotKnown, Refused
  <2> QED
    BY <2>1, <2>2, PushNews, SaysOf, <1>2 DEF cancel, Reading, Answers, NotKnown,
         Refused
<1>3. CASE id \notin Waiting /\ id \notin Unanswered
  BY <1>3, SameLanes, PushNews DEF cancel, Moves, Waiting, Reading
<1> QED BY <1>1, <1>2, <1>3, Zenon

LEMMA ReadFlow ==
  ASSUME Counting, FlowInv, ReadFrame, out' = out
  PROVE  Moves /\ News
<1> USE FlowFacts
<1> DEFINE f == Head(toServer)
<1>1. CASE f.type = "request" /\ request(f.id)
  BY <1>1, RequestFlow, Zenon DEF ReadFrame
<1>2. f.type # "request" => Asked(toServer') = Asked(toServer) /\ OneEach(toServer')
  <2>1. /\ Asked(toServer) = Asked(Tail(toServer)) \cup (IF f.type = "request" THEN {f.id} ELSE {})
        /\ OneEach(Tail(toServer))
    BY AskedTail, ClientFacts, TailRange, Zenon DEF FlowOK, ReadFrame, Frames
  <2> QED BY <2>1, Zenon DEF ReadFrame
<1>3. CASE f.type = "cancel" /\ cancel(f.id)
  BY <1>2, <1>3, CancelFlow, ClientFacts, TailRange DEF ReadFrame, Frames
<1>4. CASE f.type = "pong" /\ pong(f.id)
  BY <1>4, SameLanes, <1>2, PushNews DEF pong, Reading, Moves, Waiting, ReadFrame
<1> QED BY <1>1, <1>3, <1>4, Zenon DEF ReadFrame

LEMMA JoinedFlow ==
  ASSUME Counting, FlowInv, NEW id \in Ids, Joined(id)
  PROVE  Moves /\ News
<1> USE FlowFacts
<1>1. /\ id \in DOMAIN flight /\ promote(Drop(flight, {id})) /\ UNCHANGED <<toServer, toClient, session>>
      /\ budget' = budget
  BY Zenon DEF Joined, wire
<1>2. \/ /\ performed' = performed /\ Waiting' = Waiting
         /\ DOMAIN flight' = DOMAIN flight \ {id}
      \/ \E first \in Waiting :
           /\ performed' = performed \cup {first} /\ Waiting' = Waiting \ {first}
           /\ DOMAIN flight' = (DOMAIN flight \ {id}) \cup {first}
  BY <1>1, JoinSlots, BaseFacts, Zenon
<1>3. Moves
  <2>1. CASE /\ performed' = performed /\ Waiting' = Waiting
             /\ DOMAIN flight' = DOMAIN flight \ {id}
    BY <1>1, <2>1, Zenon DEF Moves, FlowOK
  <2>2. ASSUME NEW first \in Waiting, performed' = performed \cup {first}, Waiting' = Waiting \ {first},
               DOMAIN flight' = (DOMAIN flight \ {id}) \cup {first}
        PROVE  Moves
    <3>1. first \in (Asked(toServer) \cup Waiting) \ (Asked(toServer') \cup Waiting')
      BY <1>1, <2>2, Zenon DEF FlowOK
    <3> QED BY <1>1, <2>2, <3>1, Zenon DEF Moves, FlowOK
  <2> QED BY <1>2, <2>1, <2>2, Zenon
<1>4. id \in performed /\ id \notin Fresh /\ id \in performed'
  BY <1>1, <1>2, Zenon
<1>5. CASE flight[id].answered
  <2>1. Pushed({}, 0)
    BY <1>5, JoinedPushes, Zenon
  <2>2. toClient' = toClient /\ session' = session
    BY <1>1, Zenon
  <2>3. News
    BY <2>1, <2>2, Zenon DEF Pushed, News, Owed
  <2> QED BY <1>3, <2>3, Zenon
<1>6. CASE ~flight[id].answered
  <2>1. Pushed({response(id, flight[id].task)}, 1) /\ flight[id].task \in {"ok", "Internal"}
    BY <1>6, JoinedPushes, Zenon
  <2>2. flight[id].task \notin Refused
    BY <2>1, Zenon DEF Refused
  <2>3. /\ Says(response(id, flight[id].task), performed', Open', Fresh)
        /\ response(id, flight[id].task).type # "close"
    BY <1>4, <2>2, SaysOf, Zenon
  <2> DEFINE new == {response(id, flight[id].task)}
  <2>4. Pushed(new, 1)
    BY <2>1, Zenon
  <2>5. \A f \in new : Says(f, performed', Open', Fresh) /\ f.type # "close"
    BY <2>3, Zenon
  <2> HIDE DEF new
  <2>6. toClient' = toClient /\ session' = session
    BY <1>1, Zenon
  <2>7. News
    BY <2>4, <2>5, <2>6, PushNews, Zenon
  <2> QED BY <1>3, <2>7, Zenon
<1> QED BY <1>5, <1>6, Zenon

LEMMA ExpireFlow ==
  ASSUME Counting, FlowInv, NEW due, expire(due)
  PROVE  Moves /\ News
<1> USE FlowFacts
<1>1. ASSUME NEW i \in due
      PROVE  /\ Says(response(i, "Timeout"), performed', Open', Fresh)
             /\ response(i, "Timeout").type # "close"
  BY SaysOf, Zenon DEF expire, wire, Refused
<1>2. \A f \in {response(i, "Timeout") : i \in due} :
        Says(f, performed', Open', Fresh) /\ f.type # "close"
  BY <1>1, Zenon
<1> QED
  BY <1>2, PushNews, ExpireSlots, BaseFacts, ExpirePushes, Zenon DEF expire, wire, Moves,
       FlowOK

LEMMA EndFlow ==
  ASSUME Counting, FlowInv, end
  PROVE  Moves /\ News
<1> USE FlowFacts
<1>1. /\ session' = "closed" /\ outbox' = << >> /\ flight' = << >> /\ pending' = << >>
      /\ performed' = performed /\ UNCHANGED <<toServer, toClient>>
  BY Zenon DEF end, wire
<1>2. Waiting' = {} /\ DOMAIN flight' = {} /\ Range(outbox') = {}
  BY <1>1, EmptyRange DEF Waiting
<1>3. Moves
  BY <1>1, <1>2, Zenon DEF Moves, FlowOK
<1>4. ASSUME NEW f \in Owed', f \notin Owed PROVE Says(f, performed', Open', Fresh)
  <2>1. f \in Range(control')
    BY <1>1, <1>2, <1>4, Zenon DEF Owed
  <2>2. \/ \E i \in Unanswered : flight[i].task # "running" /\ f = response(i, flight[i].task)
        \/ f = Frame("close", 0, closing)
    BY <1>4, <2>1, EndFrames, Zenon DEF Owed
  <2>3. CASE f = Frame("close", 0, closing)
    BY <2>3, Zenon DEF Frame, Says
  <2>4. ASSUME NEW i \in Unanswered, f = response(i, flight[i].task)
        PROVE  Says(f, performed', Open', Fresh)
    <3>1. i \in Ids /\ i \in performed' /\ i \notin Fresh
      BY <1>1, Zenon
    <3>2. flight[i].task \notin Refused
      BY BaseFacts, Zenon DEF FlightTypeOK, Tasks, Unanswered, Refused
    <3> QED BY <2>4, <3>1, <3>2, SaysOf, Zenon
  <2> QED BY <2>2, <2>3, <2>4, Zenon
<1> QED BY <1>1, <1>3, <1>4, Zenon DEF News

\* Frames that move along or are neither an answer nor a close.
LEMMA CarryNews ==
  ASSUME Owed' \subseteq Owed \cup {Frame("event", 0, "none")}, session' = session
  PROVE  News
BY DEF News, Says, Frame

LEMMA ServerFlow ==
  ASSUME Counting, FlowInv, ServerNext, UNCHANGED client
  PROVE  Moves /\ News
<1> USE FlowFacts
<1>1. CASE ReadFrame
  BY <1>1, ReadFlow, Zenon DEF client
<1>2. CASE ReadEnd \/ LaneClosed \/ Stop
  BY <1>2, StillMoves, EndNews, Zenon DEF ReadEnd, LaneClosed, Stop, wire, Ends, NotKnown
<1>3. CASE DrainOutbox
  BY <1>3, DrainOK, StillMoves, CarryNews, Zenon DEF DrainOutbox, wire, Owed
<1>4. CASE KeepaliveWake
  <2>1. CASE EndWith("Timeout")
    BY <2>1, StillMoves, EndNews, <1>4, Zenon DEF Ends, NotKnown, KeepaliveWake, wire
  <2>2. CASE UNCHANGED <<control, outbox, srv, closing>>
    BY <2>2, StillMoves, CarryNews, <1>4, Zenon DEF Owed, KeepaliveWake, wire
  <2>3. CASE Commit(push(Lanes, Frame("ping", probe.sent + 1, "none")))
    <3> DEFINE g == Frame("ping", probe.sent + 1, "none")
    <3>1. g \in Frames /\ g.type = "ping"
      BY BaseFacts DEF Frame, Frames, Types
    <3> HIDE DEF g
    <3>2. Pushed({g}, 1)
      BY <2>3, <3>1, PushFrame, BaseFacts, Zenon DEF g
    <3> QED BY <3>2, StillMoves, PushNews, <1>4, <3>1 DEF KeepaliveWake, wire, Says
  <2> QED BY <2>1, <2>2, <2>3, <1>4, Zenon DEF KeepaliveWake
<1>5. CASE pump
  BY <1>5, StillMoves, CarryNews, Zenon DEF pump, Owed
<1>6. CASE end
  BY <1>6, EndFlow, Zenon
<1>7. CASE Write \/ WriteStall
  BY <1>7, WriteFrames, StillMoves, CarryNews, Zenon DEF Owed
<1>8. CASE Hangup
  BY <1>8, EmptyRange, CarryNews, Zenon DEF Hangup, server, Owed, Moves, Waiting
<1>9. ASSUME NEW i \in Ids, TaskEnds(i) PROVE Moves /\ News
  BY <1>9, TaskEndsOK, CarryNews, Zenon DEF TaskEnds, wire, Owed, Moves, Waiting, FlowOK
<1>10. ASSUME NEW i \in Ids, Joined(i) PROVE Moves /\ News
  BY <1>10, JoinedFlow, Zenon
<1>11. ASSUME NEW due \in SUBSET Ids, expire(due) PROVE Moves /\ News
  BY <1>11, ExpireFlow, Zenon
<1> QED
  BY <1>1, <1>2, <1>3, <1>4, <1>5, <1>6, <1>7, <1>8, <1>9, <1>10, <1>11, Zenon DEF ServerNext

-----------------------------------------------------------------------------
(* What the client's steps do to the commands. *)

\* What a step of the client does to its requests: some go on their way, some
\* are lost, and those never sent before may be sent.
ClientMoves ==
  /\ OneEach(out') /\ OneEach(toServer')
  /\ Asked(out') \cap Asked(toServer') = {}
  /\ Asked(out') \cup Asked(toServer') \subseteq Asked(out) \cup Asked(toServer) \cup (Fresh \ Fresh')
  /\ Fresh' \subseteq Fresh
  /\ \A i \in Asked(out') \cup Asked(toServer') \cup Waiting : call'[i] \notin Refused
  /\ Range(toClient') \subseteq Range(toClient)

LEMMA FlowClient ==
  ASSUME FlowInv, ClientMoves, UNCHANGED server
  PROVE  FlowOK'
<1> USE FlowFacts
<1>1. UNCHANGED <<flight, pending, performed, control, outbox, session>> /\ Waiting' = Waiting
  BY Zenon DEF server, Waiting
<1>2. Open' \subseteq Open \cup (Fresh \ Fresh') /\ Fresh' \subseteq Fresh
  BY <1>1, Zenon DEF ClientMoves, Open
<1>3. Owed' \subseteq Owed
  BY <1>1, Zenon DEF Owed, ClientMoves
<1>4. \A f \in Owed' : Says(f, performed', Open', Fresh')
  <2> SUFFICES ASSUME NEW f \in Owed' PROVE Says(f, performed', Open', Fresh')
    BY Zenon
  <2>1. Says(f, performed, Open, Fresh)
    BY <1>3, Zenon DEF FlowOK
  <2> QED BY <1>1, <1>2, <2>1, SaysStays, Zenon
<1>5. Fresh \subseteq Ids /\ Fresh \cap performed = {} /\ Fresh \cap Open = {}
  BY Zenon DEF Fresh, FlowOK
<1>6. Open' \subseteq Ids /\ Open' \cap performed' = {}
  BY <1>1, <1>2, <1>5, Zenon DEF FlowOK
<1>7. Fresh' \cap (Open' \cup performed') = {}
  BY <1>1, <1>2, <1>5, Zenon DEF FlowOK
<1>8. (Asked(out') \cup Asked(toServer')) \cap Waiting' = {}
  BY <1>1, <1>5, Zenon DEF ClientMoves, FlowOK, Open
<1>9. \A i \in Open' : call'[i] \notin Refused
  BY <1>1, Zenon DEF Open, ClientMoves
<1> QED BY <1>1, <1>4, <1>6, <1>7, <1>8, <1>9, Zenon DEF FlowOK, ClientMoves

LEMMA ClosedClient ==
  ASSUME ClosedOK, ClientMoves, UNCHANGED server
  PROVE  ClosedOK'
BY Zenon DEF ClosedOK, ClientMoves, server, Owed

\* Calls and queues left alone.
LEMMA StillClient ==
  ASSUME FlowInv, UNCHANGED <<call, toServer>>, Range(toClient') \subseteq Range(toClient),
         Asked(out') \subseteq Asked(out), OneEach(out')
  PROVE  ClientMoves
BY FlowFacts, Zenon DEF Fresh, FlowOK, Open, ClientMoves

\* Calls answered, or dropped: none that may still be performed is told it
\* was refused.
LEMMA AnswerMoves ==
  ASSUME FlowInv, toServer' = toServer, Range(toClient') \subseteq Range(toClient),
         Asked(out') \subseteq Asked(out), OneEach(out'),
         \A i \in Ids : call'[i] \in {call[i]} \cup {"registered", "abandoned"} \cup Answers,
         \A i \in Ids : call'[i] = "registered" => call[i] \in {"idle", "registered"},
         \A i \in Open : call'[i] = call[i] \/ call'[i] \notin Refused
  PROVE  ClientMoves
BY FlowFacts, Zenon DEF Fresh, Answers, Refused, NotKnown, FlowOK, Open, ClientMoves

\* The answers a step may give its callers, as the abstract Return.
Returned(i) ==
  /\ call[i] \in {"registered", "sent"} \/ (call[i] = "idle" /\ call'[i] \in NotKnown)
  /\ call'[i] \in {"abandoned"} \cup Answers
  /\ call'[i] = "ok" => i \in performed
  /\ call'[i] \in Refused => i \notin performed

LEMMA ReturnOf ==
  ASSUME performed' = performed, \A i \in Ids : call'[i] = call[i] \/ Returned(i)
  PROVE  Promise!Return
BY Zenon DEF CallerSees, Returned, Answers, Refused, NotKnown, Promise!Return

\* The connection's end as its callers see it.
LEMMA EndReturns ==
  ASSUME FlowInv, NEW code \in NotKnown, NEW clean, endByReader(code, clean), performed' = performed
  PROVE  /\ \A i \in Ids : call'[i] = call[i] \/ (call'[i] \in NotKnown /\ Returned(i))
         /\ \A i \in Ids : call'[i] \in {call[i]} \cup NotKnown
BY FlowFacts, ReaderEnds, Zenon DEF Outstanding, NotKnown, Answers, Refused, Returned

Keeps == Promise!Return \/ (\E i \in Ids : Promise!Issue(i)) \/ CallerSees' = CallerSees

LEMMA NotKnownFacts ==
  ASSUME NEW x \in NotKnown
  PROVE  x \notin Refused /\ x \in Answers /\ x \notin {"idle", "registered", "sent", "abandoned", "ok"}
BY Zenon DEF NotKnown, Refused, Answers

\* A reader's step that ends the connection or answers no call.
LEMMA EndMoves ==
  ASSUME FlowInv, NEW code \in NotKnown, NEW clean, endByReader(code, clean), performed' = performed,
         UNCHANGED <<toServer, out>>, Range(toClient') \subseteq Range(toClient)
  PROVE  ClientMoves /\ Keeps
BY FlowFacts, EndReturns, ReturnOf, NotKnownFacts, AnswerMoves, Zenon DEF Keeps, FlowOK

LEMMA SameCalls ==
  ASSUME call' = call
  PROVE  Keeps
BY Zenon DEF Keeps, CallerSees

LEMMA ReadNextFlow ==
  ASSUME FlowInv, ReadNext, performed' = performed
  PROVE  ClientMoves /\ Keeps
<1> USE FlowFacts
<1> DEFINE f == Head(toClient)
<1>1. /\ toClient # << >> /\ toClient' = Tail(toClient) /\ UNCHANGED <<toServer, budget, out>>
      /\ f \in Frames /\ f \in Range(toClient)
  BY ReaderMoves, Zenon
<1>2. Range(toClient') \subseteq Range(toClient)
  <2>1. toClient \in Seq(Frames)
    BY ClientFacts, Zenon
  <2> QED BY <1>1, <2>1, TailRange, Zenon
<1>3. OneEach(out') /\ Asked(out') \subseteq Asked(out)
  BY <1>1, Zenon DEF FlowOK
<1>4. CASE call' = call
  BY <1>1, <1>2, <1>3, <1>4, StillClient, SameCalls, Zenon
<1>5. CASE \E code \in NotKnown : endByReader(code, FALSE)
  BY <1>1, <1>2, <1>5, EndMoves, Zenon
<1>6. CASE f.type = "response" /\ f.id \in Outstanding /\ call' = [call EXCEPT ![f.id] = f.code]
  <2> HIDE DEF f
  <2>1. /\ f.id \in Ids /\ f.code \in Answers /\ (f.code = "ok" => f.id \in performed)
        /\ (f.code \in Refused => f.id \notin performed \cup Open)
        /\ call[f.id] \in {"registered", "sent"}
    <3>1. Says(f, performed, Open, Fresh)
      BY <1>1, Zenon DEF FlowOK, Owed
    <3> QED BY <1>1, <1>6, <3>1, Zenon DEF Says, Frames, Outstanding
  <2>2. \A i \in Ids : call'[i] = IF i = f.id THEN f.code ELSE call[i]
    <3>1. call \in [Ids -> {"idle", "registered", "sent", "abandoned"} \cup Answers]
      BY ClientFacts, Zenon
    <3> QED BY <1>6, <3>1, Zenon
  <2>3. \A i \in Ids : call'[i] = call[i] \/ Returned(i)
    BY <2>1, <2>2, Zenon DEF Returned
  <2>4. Keeps
    BY <2>3, ReturnOf, Zenon DEF Keeps
  <2>5. f.code # "registered"
    BY <2>1, Zenon DEF Answers, Refused, NotKnown
  <2>6. \A i \in Ids : call'[i] \in {call[i]} \cup {"registered", "abandoned"} \cup Answers
    BY <2>1, <2>2, Zenon
  <2>7. \A i \in Ids : call'[i] = "registered" => call[i] \in {"idle", "registered"}
    BY <2>2, <2>5, Zenon
  <2>8. \A i \in Open : call'[i] = call[i] \/ call'[i] \notin Refused
    BY <2>1, <2>2, Zenon
  <2> QED BY <1>1, <1>2, <1>3, <2>4, <2>6, <2>7, <2>8, AnswerMoves, Zenon
<1>7. \/ (f.type = "response" /\ call' = IF f.id \in Outstanding THEN [call EXCEPT ![f.id] = f.code] ELSE call)
      \/ call' = call
      \/ \E code \in NotKnown : endByReader(code, FALSE)
  BY ReaderMoves, Zenon
<1> QED BY <1>4, <1>5, <1>6, <1>7, Zenon

LEMMA QuietFlow ==
  ASSUME FlowInv, ReadHeld \/ ReadEnds \/ Silence, performed' = performed
  PROVE  ClientMoves /\ Keeps
BY FlowFacts, QuietReader, StillClient, SameCalls, EndMoves, Zenon DEF wire, FlowOK

LEMMA WriterFlow ==
  ASSUME FlowInv, writeLoop
  PROVE  ClientMoves /\ Keeps
<1> USE FlowFacts
<1>1. UNCHANGED <<call, toClient>>
  BY WriterMoves, Zenon
<1>2. out \in Seq(Frames) /\ toServer \in Seq(Frames) /\ echo \in Nat
  BY ClientFacts, Zenon
<1>3. Keeps
  BY <1>1, SameCalls, Zenon
<1>4. CASE out' = << >> /\ toServer' = toServer
  <2>1. OneEach(out') /\ Asked(out') \subseteq Asked(out)
    BY <1>4, EmptyRange, Zenon
  <2> QED BY <1>1, <1>3, <1>4, <2>1, StillClient, Zenon
<1>5. ASSUME Asked(out') \cup Asked(toServer') \subseteq Asked(out) \cup Asked(toServer),
             Asked(out') \cap Asked(toServer') = {}, OneEach(out'), OneEach(toServer')
      PROVE  ClientMoves
  <2>1. Fresh' = Fresh
    BY <1>1, Zenon DEF Fresh
  <2>2. \A i \in Asked(out') \cup Asked(toServer') \cup Waiting : call'[i] \notin Refused
    BY <1>1, <1>5, Zenon DEF FlowOK, Open
  <2> QED BY <1>1, <1>5, <2>1, <2>2, Zenon DEF ClientMoves
<1>6. CASE out' = out /\ toServer' = Append(toServer, Frame("pong", echo, "none"))
  <2> DEFINE g == Frame("pong", echo, "none")
  <2>1. g \in Frames /\ g.type # "request"
    BY <1>2, ClientFrames, Zenon
  <2> HIDE DEF g
  <2>2. Asked(Append(toServer, g)) = Asked(toServer) /\ OneEach(Append(toServer, g))
    BY <1>2, <2>1, AskedAppend, Zenon DEF FlowOK
  <2>3. toServer' = Append(toServer, g)
    BY <1>6, Zenon DEF g
  <2> QED BY <1>3, <1>5, <1>6, <2>2, <2>3, Zenon DEF FlowOK
<1>7. CASE out # << >> /\ out' = Tail(out) /\ toServer' = Append(toServer, Head(out))
  <2> DEFINE g == Head(out)
  <2>1. /\ g \in Frames /\ Asked(Tail(out)) \subseteq Asked(out) /\ OneEach(Tail(out))
        /\ g.type = "request" => g.id \in Asked(out) /\ g.id \notin Asked(Tail(out))
    BY <1>2, <1>7, TailRange, AskedTail, Zenon DEF FlowOK
  <2> HIDE DEF g
  <2>2. g.type = "request" => g.id \notin Asked(toServer)
    BY <2>1, Zenon DEF FlowOK
  <2>3. /\ Asked(Append(toServer, g)) = Asked(toServer) \cup (IF g.type = "request" THEN {g.id} ELSE {})
        /\ OneEach(Append(toServer, g))
    BY <1>2, <2>1, <2>2, AskedAppend, Zenon DEF FlowOK
  <2>4. toServer' = Append(toServer, g) /\ out' = Tail(out)
    BY <1>7, Zenon DEF g
  <2>5. Asked(out') \cap Asked(toServer') = {}
    BY <2>1, <2>3, <2>4, Zenon DEF FlowOK
  <2>6. Asked(out') \cup Asked(toServer') \subseteq Asked(out) \cup Asked(toServer)
    BY <2>1, <2>3, <2>4, Zenon
  <2> QED BY <1>3, <1>5, <2>1, <2>3, <2>4, <2>5, <2>6, Zenon
<1> QED BY <1>4, <1>6, <1>7, WriterMoves, Zenon

LEMMA RegisterFlow ==
  ASSUME FlowInv, NEW i \in Ids, register(i), performed' = performed
  PROVE  ClientMoves /\ Keeps
<1> USE FlowFacts
<1>1. /\ UNCHANGED <<toServer, toClient, out>> /\ call[i] = "idle"
      /\ call' = [call EXCEPT ![i] = IF hasEnded THEN EndedFor ELSE "registered"]
  BY Zenon DEF register, wire
<1>2. CASE call'[i] \in NotKnown
  BY <1>1, <1>2, NotKnownFacts, ReturnOf, ClientFacts, AnswerMoves, Zenon DEF Returned, Keeps,
       Refused, FlowOK, hasEnded, EndedFor
<1>3. CASE call'[i] = "registered"
  BY <1>3, <1>1, ClientFacts, NotKnownFacts, AnswerMoves, Zenon DEF CallerSees, Promise!Issue,
       Keeps, Refused, FlowOK, hasEnded, EndedFor
<1> QED BY <1>2, <1>3, <1>1, ClientFacts, Zenon DEF hasEnded, EndedFor

LEMMA ExchangeFlow ==
  ASSUME FlowInv, NEW i \in Ids, exchange(i)
  PROVE  ClientMoves /\ Keeps
<1> USE FlowFacts
<1> DEFINE g == Frame("request", i, "none")
<1>1. /\ UNCHANGED <<toServer, toClient>> /\ call[i] = "registered" /\ call' = [call EXCEPT ![i] = "sent"]
      /\ out' \in {out, Append(out, g)}
  BY Zenon DEF exchange, wire
<1>2. call \in [Ids -> {"idle", "registered", "sent", "abandoned"} \cup Answers] /\ out \in Seq(Frames)
      /\ i \in Nat
  BY ClientFacts, Zenon
<1>3. g \in Frames /\ g.type = "request" /\ g.id = i
  BY <1>2, ClientFrames, Zenon
<1> HIDE DEF g
<1>4. \A j \in Ids : call'[j] = IF j = i THEN "sent" ELSE call[j]
  BY <1>1, <1>2, Zenon
<1>5. Fresh' = Fresh \ {i} /\ i \in Fresh /\ i \notin Open
  <2>1. i \in Fresh
    BY <1>1, Zenon DEF Fresh
  <2>2. Fresh' = Fresh \ {i}
    BY <1>4, Zenon DEF Fresh
  <2> QED BY <2>1, <2>2, Zenon DEF FlowOK
<1>6. i \notin Asked(out) /\ i \notin Asked(toServer)
  BY <1>5, Zenon DEF Open
<1>7. Asked(out') \subseteq Asked(out) \cup {i} /\ OneEach(out')
  <2>1. Asked(Append(out, g)) = Asked(out) \cup {i} /\ OneEach(Append(out, g))
    BY <1>2, <1>3, <1>6, AskedAppend, Zenon DEF FlowOK
  <2> QED BY <1>1, <2>1, Zenon DEF FlowOK
<1>8. \A j \in Asked(out') \cup Asked(toServer') \cup Waiting : call'[j] \notin Refused
  <2>1. \A j \in Open : call'[j] \notin Refused
    BY <1>4, <1>5, Zenon DEF FlowOK
  <2>2. call'[i] \notin Refused
    BY <1>4, Zenon DEF Refused
  <2> QED BY <1>1, <1>7, <2>1, <2>2, Zenon DEF Open
<1>9. ClientMoves
  BY <1>1, <1>5, <1>6, <1>7, <1>8, Zenon DEF ClientMoves, FlowOK
<1>10. CallerSees' = CallerSees
  BY <1>1, <1>4, Zenon DEF CallerSees
<1> QED BY <1>9, <1>10, Zenon DEF Keeps

LEMMA DropFlow ==
  ASSUME FlowInv, NEW i \in Ids, CancelOnDrop(i), performed' = performed
  PROVE  ClientMoves /\ Keeps
<1> USE FlowFacts
<1> DEFINE g == Frame("cancel", i, "none")
<1>1. /\ UNCHANGED <<toServer, toClient>> /\ call[i] \in {"registered", "sent"}
      /\ call' = [call EXCEPT ![i] = "abandoned"] /\ out' \in {out, Append(out, g)}
  BY Zenon DEF CancelOnDrop, wire, Outstanding
<1>2. g \in Frames /\ g.type # "request"
  BY ClientFrames, ClientFacts, Zenon
<1> HIDE DEF g
<1>3. Asked(out') \subseteq Asked(out) /\ OneEach(out')
  <2>1. Asked(Append(out, g)) = Asked(out) /\ OneEach(Append(out, g))
    BY <1>2, AskedAppend, Zenon, ClientFacts DEF FlowOK
  <2> QED BY <1>1, <2>1, Zenon DEF FlowOK
<1> QED BY ReturnOf, <1>1, <1>3, AnswerMoves, ClientFacts, Zenon DEF Keeps, Refused, Returned

LEMMA AsideFlow ==
  ASSUME FlowInv, AsideStep
  PROVE  ClientMoves /\ Keeps
BY FlowFacts, AsideOK, StillClient, SameCalls, Zenon DEF wire, FlowOK

LEMMA LeaveFlow ==
  ASSUME FlowInv, closeAsks \/ dropped
  PROVE  ClientMoves /\ Keeps
BY FlowFacts, LeaveOK, EmptyRange, StillClient, SameCalls, Zenon DEF FlowOK

LEMMA ClientFlow ==
  ASSUME FlowInv, ClientNext, UNCHANGED server
  PROVE  ClientMoves /\ Keeps
BY WriterFlow, ReadNextFlow, QuietFlow, AsideFlow, LeaveFlow, RegisterFlow,
     ExchangeFlow, DropFlow, Zenon DEF server, ClientNext, AsideStep

-----------------------------------------------------------------------------
(* The promise and the close. *)

LEMMA FlowInit == Init => FlowOK /\ ClosedOK
BY EmptyRange DEF Init, WireInit, ServerInit, ClientInit, Waiting, Open, Owed, FlowOK,
     ClosedOK

LEMMA FlowStep == Counting /\ BaseInv /\ FlowOK /\ ClosedOK /\ [Next]_vars => FlowOK' /\ ClosedOK'
<1> SUFFICES ASSUME Counting, BaseInv, FlowOK, ClosedOK, [Next]_vars PROVE FlowOK' /\ ClosedOK'
  BY Zenon
<1>1. CASE ServerNext /\ UNCHANGED client
  BY <1>1, ServerFlow, FlowServer, ClosedServer, Zenon DEF client, FlowInv
<1>2. CASE ClientNext /\ UNCHANGED server
  BY <1>2, ClientFlow, FlowClient, ClosedClient, Zenon DEF FlowInv
<1>3. CASE UNCHANGED vars
  BY <1>3, Zenon DEF vars, wire, server, client, Waiting, Open, Fresh, Owed, FlowOK, ClosedOK
<1> QED BY <1>1, <1>2, <1>3, Zenon DEF Next

LEMMA PromiseStep == Counting /\ BaseInv /\ FlowOK /\ [Next]_vars => [Promise!CommandsNext]_(Promise!promises)
<1> SUFFICES ASSUME Counting, BaseInv, FlowOK, [Next]_vars
             PROVE  Promise!CommandsNext \/ UNCHANGED Promise!promises
  BY Zenon
<1>1. CASE ServerNext /\ UNCHANGED client
  <2>1. CASE performed' = performed
    BY <2>1, <1>1, Zenon DEF Promise!promises, CallerSees, client
  <2>2. ASSUME NEW i \in Asked(toServer) \cup Waiting, performed' = performed \cup {i}
        PROVE  Promise!CommandsNext
    BY FlowFacts, <2>2, <1>1, Zenon DEF FlowOK, Open, CallerSees, Fresh, Refused,
         Promise!Perform, Promise!CommandsNext, FlowInv, client
  <2> QED BY <2>1, <2>2, <1>1, ServerFlow, Zenon DEF Moves, FlowInv
<1>2. CASE ClientNext /\ UNCHANGED server
  BY <1>2, ClientFlow, Zenon DEF server, Keeps, Promise!CommandsNext, Promise!promises, FlowInv
<1>3. CASE UNCHANGED vars
  BY <1>3, Zenon DEF vars, server, client, CallerSees, Promise!promises
<1> QED BY <1>1, <1>2, <1>3, Zenon DEF Next

-----------------------------------------------------------------------------
(* The theorems. *)

INSTANCE FiniteSetTheorems

LEMMA NaturalInduction ==
  ASSUME NEW S, 0 \in S, \A n \in Nat : n \in S => n + 1 \in S
  PROVE  Nat \subseteq S
<1> DEFINE R == OpToRel(<, Nat)
           T == Nat \ S
<1> SUFFICES ASSUME T # {} PROVE FALSE
  BY Zenon
<1>1. PICK x \in T : \A y \in T : ~(<<y, x>> \in R)
  BY NatLessThanWellFounded, WFMin, Zenon DEF R, T
<1>2. \A y \in T : ~(y < x)
  BY <1>1, Zenon DEF OpToRel
<1> QED BY <1>2

LEMMA CountingHolds == Counting
<1>1. \A S : 0 \in S /\ (\A n \in Nat : n \in S => n + 1 \in S) => Nat \subseteq S
  BY NaturalInduction, Zenon
<1>2. \A S : IsFiniteSet(S) => Cardinality(S) \in Nat
  BY FS_CardinalityType, Zenon
<1>3. IsFiniteSet({}) /\ Cardinality({}) = 0
  BY FS_EmptySet, Zenon
<1>4. \A x : IsFiniteSet({x})
  BY FS_Singleton, Zenon
<1>5. \A S, T : IsFiniteSet(S) /\ T \subseteq S => IsFiniteSet(T) /\ Cardinality(T) <= Cardinality(S)
  BY FS_Subset, Zenon
<1>6. \A n \in Nat : IsFiniteSet(1..n) /\ Cardinality(1..n) = n
  BY FS_Interval
<1>7. \A S, x : IsFiniteSet(S) =>
        /\ IsFiniteSet(S \cup {x})
        /\ Cardinality(S \cup {x}) = IF x \in S THEN Cardinality(S) ELSE Cardinality(S) + 1
  BY FS_AddElement, Zenon
<1>8. \A S, x : IsFiniteSet(S) =>
        /\ IsFiniteSet(S \ {x})
        /\ Cardinality(S \ {x}) = IF x \in S THEN Cardinality(S) - 1 ELSE Cardinality(S)
  BY FS_RemoveElement, Zenon
<1>9. \A S, T : IsFiniteSet(S) /\ IsFiniteSet(T) => IsFiniteSet(S \cup T)
  BY FS_Union, Zenon
<1>10. \A S, T : IsFiniteSet(S) => Cardinality(S \ T) = Cardinality(S) - Cardinality(S \cap T)
  BY FS_Difference, Zenon
<1>11. ASSUME NEW T, IsFiniteSet(T), NEW f \in Injection(1..Cardinality(T), T)
       PROVE  f \in Surjection(1..Cardinality(T), T)
  <2>1. Cardinality(1..Cardinality(T)) = Cardinality(T)
    BY <1>2, <1>6, <1>11, Zenon
  <2> QED BY <1>11, <2>1, FS_Injection, Zenon
<1> QED BY <1>1, <1>2, <1>3, <1>4, <1>5, <1>6, <1>7, <1>8, <1>9, <1>10, <1>11, Zenon DEF Counting

\* The types of a connection's state, its limits and what it owes hold in every
\* reachable state, whatever the lane, queue and socket sizes.
THEOREM ConnectionInvariant == Spec => []BaseInv
<1>1. Init => BaseInv
  BY BaseInit, CountingHolds, Zenon
<1>2. BaseInv /\ [Next]_vars => BaseInv'
  BY BaseStep, CountingHolds, Zenon
<1> QED BY <1>1, <1>2, PTL DEF Spec

\* The outbox never outgrows the room its limit has by construction
\* (connection.rs `outbox`): the pause in reading bounds what is owed.
THEOREM OutboxIsBounded == Spec => []OutboxNeverStalls
<1>1. BaseInv => OutboxNeverStalls
  <2> SUFFICES ASSUME BaseInv PROVE Len(outbox) <= 1 + MaxInFlight + budget.pending + MaxMissed
    BY Zenon DEF OutboxNeverStalls
  <2> QED BY BaseFacts, CountingHolds DEF OwedOK
<1> QED BY <1>1, ConnectionInvariant, PTL

\* A session asleep in `ready` has nothing to read, or its notification is on
\* its way (session.rs `ready`, `wake_all`).
THEOREM WakeupsAreNotLost == Spec => []NoLostWakeup
<1>1. Init => WakeOK
  BY Zenon DEF Init, ClientInit, WakeOK, hasEnded, EndedFor
<1>2. WakeOK => NoLostWakeup
  BY Zenon DEF WakeOK, NoLostWakeup
<1> QED BY <1>1, <1>2, WakeStep, ConnectionInvariant, PTL DEF Spec

\* Every command is in one place at a time, and what is said of it is true
\* (connection.rs `request`, `cancel`, `finished`, `expire`, `end`; ipc-client
\* `register`, `exchange`, `CancelOnDrop`): a request is in the client's queue, on
\* the socket, waiting, or performed, never in two of these; a response that
\* says `ok` names a command that was performed and one that says it was refused
\* names a command that is nowhere and never will be.
THEOREM CommandsAreTracked == Spec => [](FlowOK /\ ClosedOK)
<1>1. BaseInv /\ FlowOK /\ ClosedOK /\ [Next]_vars => FlowOK' /\ ClosedOK'
  BY FlowStep, CountingHolds, Zenon
<1> QED BY <1>1, FlowInit, ConnectionInvariant, PTL DEF Spec

\* A client told of the end by a `close` finds the lease free (connection.rs
\* `end`): for every number of requests in flight, waiting and cancelled.
THEOREM CloseFollowsRelease == Spec => []CloseMeansReleased
<1>1. BaseInv /\ ClosedOK => CloseMeansReleased
  <2> SUFFICES ASSUME BaseInv, ClosedOK, NEW k \in 1..Len(toClient), toClient[k].type = "close"
               PROVE  session = "closed"
    BY Zenon DEF CloseMeansReleased
  <2>1. toClient \in Seq(Frames)
    BY ClientFacts, Zenon
  <2>2. toClient[k] \in Range(toClient)
    BY <2>1 DEF Range
  <2> QED BY <2>2, Zenon DEF ClosedOK, Owed
<1> QED BY <1>1, ConnectionInvariant, CommandsAreTracked, PTL

\* The two connections, with the socket between them, implement the promise made
\* to a caller (connection.rs `request`, `cancel`, `expire`, `finished`): whatever is
\* cancelled, late, lost or cut off, a command is performed at most once, returns
\* at most once, `ok` only if it was performed, and a refusal means it never is.
THEOREM ConnectionKeepsPromise == Spec => KeepsPromise
<1>1. Init => Promise!CommandsInit
  BY Zenon DEF Init, ServerInit, ClientInit, CallerSees, Promise!CommandsInit
<1>2. BaseInv /\ FlowOK /\ [Next]_vars => [Promise!CommandsNext]_(Promise!promises)
  BY PromiseStep, CountingHolds, Zenon
<1> QED
  BY <1>1, <1>2, ConnectionInvariant, CommandsAreTracked, PTL
  DEF Spec, KeepsPromise, Promise!CommandsSpec
=============================================================================
