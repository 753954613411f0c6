---------------------------- MODULE BridgeProofs ----------------------------
(***************************************************************************)
(* Why the bridge agrees with the daemon about its channels, keeps the     *)
(* joins it told its host of, and answers a direct message only under the  *)
(* lease it came with, for any channels, queue, batch and buffer sizes.    *)
(*                                                                         *)
(* Of the calls the daemon has, only the last may still be heard, and it   *)
(* is the one being driven. A join or leave that is not heard any more is  *)
(* pending, to be asked again, or was answered by its deadline. So with    *)
(* nothing of the kind about a channel, what the daemon holds of it        *)
(* changes only by the call being driven.                                  *)
(***************************************************************************)
EXTENDS Bridge, WellFoundedInduction, TLAPS

-----------------------------------------------------------------------------
(* Types. A token's route names the lease its message came under, and so   *)
(* does a queued direct message that came under one.                       *)

Memberships == {"join", "leave"}
Calls == [op : Memberships, of : Channels, heard : BOOLEAN]
           \cup [op : {"send", "broadcast"}, of : Channels \cup Nat, heard : BOOLEAN]

Frames(epochs) == [type : {"direct", "notice"}, of : epochs] \cup [type : {"broadcast"}, of : Channels]
Routes == {DirectRoute(e, e) : e \in Nat \ {0}} \cup {BroadcastRoute(c) : c \in Channels}
Tokens == [token : Nat, route : Routes, age : Nat]
Events == {x \in [event : Frames(Nat), under : Nat] :
             x.event.type # "notice" /\ (x.event.type = "direct" /\ x.under # 0 => x.event.of = x.under)}

Links == [alive : BOOLEAN, epoch : Nat, leased : BOOLEAN, held : SUBSET Channels]
Answers == [code : {"none", "ok", "refused", "timeout"}, behind : Nat]

LoopTypeOK ==
  /\ mode \in {"push", "pull"}
  /\ budget \in [Things -> Nat]
  /\ joined \subseteq Channels /\ refused \subseteq Channels
  /\ doubt \subseteq Channels /\ firm \subseteq Channels
  /\ pending \in [Channels -> {"none"} \cup Memberships]
  /\ session \in BOOLEAN
  /\ doing \in [at : {"idle", "open", "call", "resolve"}, rest : Seq(Calls)]
  /\ doing.at = "idle" <=> doing.rest = << >>
  /\ link \in Links
  /\ asked \in Seq(Calls)
  /\ answer \in Answers

\* The lease the bridge holds is the daemon's last, and so is what it reads.
RouteOK ==
  /\ lease \in {0, link.epoch}
  /\ table \in Seq(Tokens)
  /\ queue \in Seq(Events) /\ Len(queue) <= Bound
  /\ wire \in Seq(Frames({link.epoch}))
  /\ dropped \in Nat

-----------------------------------------------------------------------------
(* The invariants. *)

\* What is being driven: joins alone while a session is opened, each channel
\* once; joins and leaves when what was pending is asked again; one call of the
\* host's, which starts with nothing pending.
RestOK(at, rest) ==
  /\ \A i \in DOMAIN rest : rest[i].heard
  /\ at = "call" => Len(rest) <= 1
  /\ at \in {"open", "resolve"} => \A i \in DOMAIN rest : rest[i].op \in Memberships
  /\ at = "open" =>
       /\ \A i \in DOMAIN rest : rest[i].op = "join"
       /\ \A i, j \in DOMAIN rest : rest[i].of = rest[j].of => i = j

DoingOK ==
  /\ RestOK(doing.at, doing.rest)
  /\ link.alive => session \/ doing.at = "open"
  /\ doing.at = "call" => pending = NothingPending

\* A channel the host was told it joined is not about to be left.
FirmOK ==
  /\ JoinsOutliveSessions
  /\ \A c \in firm : pending[c] # "leave"
  /\ \A i \in DOMAIN doing.rest : doing.rest[i].op = "leave" => doing.rest[i].of \notin firm

\* Where the call being driven is: the last of what the daemon has, or answered.
Driven ==
  /\ doing = Idle => answer.code = "none" /\ \A i \in DOMAIN asked : ~asked[i].heard
  /\ doing # Idle /\ answer.code = "none" =>
       /\ asked # << >>
       /\ asked[Len(asked)] = Call
       /\ \A i \in DOMAIN asked : asked[i].heard => i = Len(asked)
  /\ answer.code # "none" => \A i \in DOMAIN asked : ~asked[i].heard
  /\ answer.code \in {"ok", "refused"} => asked = << >>

\* What was asked and is not heard is in question.
InQuestion(c) == pending[c] # "none" \/ c \in doubt
UnheardOK ==
  \A i \in DOMAIN asked :
    asked[i].op \in Memberships /\ ~asked[i].heard => InQuestion(asked[i].of)

\* What the answer to the call being driven says of what the daemon holds.
AnswerOK ==
  doing # Idle /\ Call.op \in Memberships =>
    /\ answer.code = "ok" => (Call.of \in link.held <=> Call.op = "join")
    /\ answer.code = "refused" => Call.op = "join" /\ Call.of \notin link.held
    /\ answer.code = "timeout" => Call.of \in doubt

\* The channels to be joined again after the one being joined.
Later == {doing.rest[i].of : i \in DOMAIN doing.rest \ {1}}
Current(c) == doing # Idle /\ Call.op \in Memberships /\ Call.of = c

HeldOK ==
  \A c \in Channels :
    ~InQuestion(c) =>
      /\ doing.at = "open" /\ ~Current(c) => (c \in joined <=> c \in link.held \cup Later)
      /\ doing.at # "open" /\ (~Current(c) \/ answer.code # "ok") => (c \in joined <=> c \in link.held)

AgreeOK ==
  /\ ~link.alive => asked = << >>
  /\ link.alive => Driven /\ UnheardOK /\ AnswerOK /\ HeldOK

BridgeInv == LoopTypeOK /\ RouteOK /\ DoingOK /\ FirmOK /\ AgreeOK /\ ReplyStaysInItsLease

-----------------------------------------------------------------------------
(* Recursion and sequences. *)

\* A set of numbers that holds 0 and the successor of each member holds them
\* all: the least number outside would have a predecessor inside.
LEMMA Induction ==
  ASSUME NEW S, 0 \in S, \A n \in Nat : n \in S => n + 1 \in S
  PROVE  Nat \subseteq S
<1> DEFINE R == OpToRel(<, Nat)
           T == Nat \ S
<1> SUFFICES ASSUME T # {} PROVE FALSE
  BY Zenon
<1>1. PICK x \in T : \A y \in T : ~(<<y, x>> \in R)
  <2> HIDE DEF R, T
  <2>1. IsWellFoundedOn(R, Nat)
    BY NatLessThanWellFounded, Zenon DEF R
  <2>2. T \subseteq Nat
    BY Zenon DEF T
  <2> QED BY <2>1, <2>2, WFMin, Zenon
<1>2. \A y \in T : ~(y < x)
  BY <1>1, Zenon DEF OpToRel
<1>3. x # 0 /\ x - 1 \in Nat /\ x - 1 \notin T
  BY <1>2
<1>4. x - 1 \in S /\ (x - 1) + 1 = x
  BY <1>3
<1> QED BY <1>3, <1>4, Zenon

\* A chain of values whose every link leads from one set to the next ends in
\* the last.
LEMMA Chain ==
  ASSUME NEW N \in Nat, NEW D, NEW f, f[0] \in D[0],
         \A k \in 1..N : f[k - 1] \in D[k - 1] => f[k] \in D[k]
  PROVE  f[N] \in D[N]
<1> DEFINE S == {m \in Nat : m <= N => f[m] \in D[m]}
<1>1. 0 \in S
  BY Zenon
<1>2. \A n \in Nat : n \in S => n + 1 \in S
  <2> SUFFICES ASSUME NEW n \in Nat, n \in S, n + 1 <= N PROVE f[n + 1] \in D[n + 1]
    OBVIOUS
  <2>1. n + 1 \in 1..N /\ (n + 1) - 1 = n /\ n <= N
    OBVIOUS
  <2> QED BY <2>1, Zenon
<1>3. Nat \subseteq S
  <2> HIDE DEF S
  <2> QED BY <1>1, <1>2, Induction, Zenon
<1> QED BY <1>3

LEMMA ChainIn ==
  ASSUME NEW N \in Nat, NEW D, NEW f, f[0] \in D, \A k \in 1..N : f[k - 1] \in D => f[k] \in D
  PROVE  f[N] \in D
<1> DEFINE E == [k \in Nat |-> D]
<1>1. f[0] \in E[0] /\ \A k \in 1..N : f[k - 1] \in E[k - 1] => f[k] \in E[k]
  OBVIOUS
<1>2. f[N] \in E[N]
  <2> HIDE DEF E
  <2> QED BY <1>1, Chain, Zenon
<1> QED BY <1>2, Zenon

\* A step on a set can be taken any number of times.
Runs(g, N, D, a, step) ==
  g \in [0..N -> D] /\ g[0] = a /\ \A k \in 1..N : g[k] = step[k][g[k - 1]]

LEMMA Recursion ==
  ASSUME NEW N \in Nat, NEW D, NEW a \in D, NEW step \in [1..N -> [D -> D]]
  PROVE  \E g : Runs(g, N, D, a, step)
<1> DEFINE Built(g, m) == g[0] = a /\ \A k \in 1..m : g[k] = step[k][g[k - 1]]
           S == {m \in Nat : m <= N => \E g \in [0..m -> D] : Built(g, m)}
<1>1. 0 \in S
  <2>1. [k \in 0..0 |-> a] \in [0..0 -> D] /\ Built([k \in 0..0 |-> a], 0)
    OBVIOUS
  <2> QED BY <2>1, Zenon
<1>2. ASSUME NEW n \in Nat, n \in S PROVE n + 1 \in S
  <2> SUFFICES ASSUME n + 1 <= N PROVE \E g \in [0..(n + 1) -> D] : Built(g, n + 1)
    OBVIOUS
  <2>1. PICK g \in [0..n -> D] : Built(g, n)
    BY <1>2
  <2> DEFINE h == [k \in 0..(n + 1) |-> IF k = n + 1 THEN step[n + 1][g[n]] ELSE g[k]]
  <2>2. n + 1 \in 1..N /\ n \in 0..n /\ g[n] \in D /\ step[n + 1][g[n]] \in D
    OBVIOUS
  <2>3. h \in [0..(n + 1) -> D]
    BY <2>2
  <2>4. h[0] = a
    BY <2>1
  <2>5. ASSUME NEW k \in 1..(n + 1) PROVE h[k] = step[k][h[k - 1]]
    <3>1. k - 1 \in 0..n /\ h[k - 1] = g[k - 1]
      OBVIOUS
    <3>2. CASE k = n + 1
      BY <3>1, <3>2
    <3>3. CASE k # n + 1
      BY <2>1, <3>1, <3>3
    <3> QED BY <3>2, <3>3, Zenon
  <2> HIDE DEF h
  <2> QED BY <2>3, <2>4, <2>5, Zenon
<1>3. N \in S
  <2> HIDE DEF S
  <2> QED BY <1>1, <1>2, Induction, Zenon
<1> QED BY <1>3 DEF Runs

\* What appending and dropping the head do to a sequence.
LEMMA AppendFacts ==
  ASSUME NEW T, NEW q \in Seq(T), NEW x \in T
  PROVE  /\ Append(q, x) \in Seq(T) /\ Append(q, x) # << >>
         /\ Len(Append(q, x)) = Len(q) + 1 /\ Append(q, x)[Len(q) + 1] = x
         /\ DOMAIN Append(q, x) = 1..(Len(q) + 1)
         /\ DOMAIN q = 1..Len(q) /\ Len(q) \in Nat
         /\ \A i \in DOMAIN q : Append(q, x)[i] = q[i]
OBVIOUS

LEMMA TailFacts ==
  ASSUME NEW T, NEW q \in Seq(T), q # << >>
  PROVE  /\ Tail(q) \in Seq(T) /\ Head(q) \in T /\ Head(q) = q[1] /\ 1 \in DOMAIN q
         /\ Len(q) \in Nat \ {0} /\ Len(Tail(q)) = Len(q) - 1
         /\ DOMAIN q = 1..Len(q) /\ DOMAIN Tail(q) = 1..(Len(q) - 1)
         /\ \A i \in DOMAIN Tail(q) : Tail(q)[i] = q[i + 1] /\ i + 1 \in DOMAIN q
OBVIOUS

\* A part of a sequence.
LEMMA PartFacts ==
  ASSUME NEW T, NEW q \in Seq(T), NEW m \in Nat \ {0}, NEW n \in Int, n <= Len(q)
  PROVE  SubSeq(q, m, n) \in Seq(T)
OBVIOUS

\* `Filter` keeps exactly the elements of the set, each as often as before.
Once(q) == \A i, j \in DOMAIN q : q[i] = q[j] => i = j

LEMMA FilterFacts ==
  ASSUME NEW T, NEW seq \in Seq(T), NEW set
  PROVE  /\ Filter(seq, set) \in Seq(T)
         /\ Range(Filter(seq, set)) = Range(seq) \cap set
         /\ Once(seq) => Once(Filter(seq, set))
<1> DEFINE N == Len(seq)
           Keep(q, k) == IF seq[k] \in set THEN Append(q, seq[k]) ELSE q
           Rule(g, k) == IF k = 0 THEN << >>
                         ELSE IF seq[k] \in set THEN Append(g[k - 1], seq[k])
                         ELSE g[k - 1]
           Built(g) == g = [k \in 0..N |-> Rule(g, k)]
           f == CHOOSE g : Built(g)
           Good(q, k) == /\ Range(q) = {seq[i] : i \in 1..k} \cap set
                         /\ Once(seq) => Once(q)
           D == [k \in 0..N |-> {q \in Seq(T) : Good(q, k)}]
<1>1. N \in Nat /\ << >> \in Seq(T) /\ \A k \in 1..N : seq[k] \in T
  OBVIOUS
<1>2. \E g : Built(g)
  <2> DEFINE step == [k \in 1..N |-> [q \in Seq(T) |-> Keep(q, k)]]
  <2>1. step \in [1..N -> [Seq(T) -> Seq(T)]]
    OBVIOUS
  <2>2. PICK g : Runs(g, N, Seq(T), << >>, step)
    <3> HIDE DEF step, N
    <3> QED BY <1>1, <2>1, Recursion, Zenon
  <2>3. ASSUME NEW k \in 0..N PROVE g[k] = Rule(g, k)
    <3>1. CASE k = 0
      BY <2>2, <3>1, Zenon DEF Runs
    <3>2. CASE k # 0
      <4>1. k \in 1..N /\ k - 1 \in 0..N
        BY <1>1, <3>2
      <4>2. g[k] = step[k][g[k - 1]] /\ g[k - 1] \in Seq(T)
        BY <2>2, <4>1, Zenon DEF Runs
      <4>3. g[k] = Keep(g[k - 1], k)
        BY <4>1, <4>2, Zenon
      <4> QED BY <3>2, <4>3, Zenon
    <3> QED BY <3>1, <3>2, Zenon
  <2>4. g = [k \in 0..N |-> g[k]]
    BY <2>2, Zenon DEF Runs
  <2>5. Built(g)
    <3> HIDE DEF N, Rule
    <3> QED BY <2>3, <2>4, Zenon
  <2> QED BY <2>5, Zenon
<1>3. Built(f)
  <2> HIDE DEF Built
  <2> QED BY <1>2, Zenon
<1>4. Filter(seq, set) = f[N]
  BY Zenon DEF Filter
<1> HIDE DEF f
<1>5. f[0] \in D[0]
  <2>1. f[0] = << >>
    BY <1>1, <1>3
  <2>2. Good(<< >>, 0)
    BY DEF Range, Once
  <2> QED BY <1>1, <2>1, <2>2
<1>6. ASSUME NEW k \in 1..N, f[k - 1] \in D[k - 1] PROVE f[k] \in D[k]
  <2> DEFINE q == f[k - 1]
  <2>1. k \in 0..N /\ k # 0 /\ k - 1 \in 0..N /\ 1..k = 1..(k - 1) \cup {k}
    BY <1>1
  <2>2. f[k] = Keep(q, k)
    BY <1>3, <2>1, Zenon
  <2>3. q \in Seq(T) /\ Good(q, k - 1)
    BY <1>6, <2>1, Zenon
  <2>4. seq[k] \in T
    BY <1>1, Zenon
  <2> HIDE DEF q
  <2>5. CASE seq[k] \in set
    <3>1. f[k] = Append(q, seq[k])
      BY <2>2, <2>5, Zenon
    <3>2. /\ f[k] \in Seq(T) /\ DOMAIN f[k] = DOMAIN q \cup {Len(q) + 1}
          /\ f[k][Len(q) + 1] = seq[k] /\ \A i \in DOMAIN q : f[k][i] = q[i]
      <4>1. DOMAIN q = 1..Len(q) /\ 1..(Len(q) + 1) = 1..Len(q) \cup {Len(q) + 1}
        BY <2>3
      <4> QED BY <2>3, <2>4, <3>1, <4>1, AppendFacts
    <3>3. Range(f[k]) = Range(q) \cup {seq[k]}
      BY <3>2, Zenon DEF Range
    <3>4. Range(f[k]) = {seq[i] : i \in 1..k} \cap set
      BY <2>1, <2>3, <2>5, <3>3, Zenon
    <3>5. ASSUME Once(seq) PROVE Once(f[k])
      <4>1. seq[k] \notin Range(q)
        BY <2>1, <2>3, <3>5 DEF Once
      <4> QED BY <2>3, <3>2, <3>5, <4>1, Zenon DEF Once, Range
    <3> QED BY <2>1, <3>2, <3>4, <3>5, Zenon
  <2>6. CASE seq[k] \notin set
    <3>1. f[k] = q
      BY <2>2, <2>6, Zenon
    <3>2. {seq[i] : i \in 1..k} \cap set = {seq[i] : i \in 1..(k - 1)} \cap set
      BY <2>1, <2>6, Zenon
    <3> QED BY <2>1, <2>3, <3>1, <3>2, Zenon
  <2> QED BY <2>5, <2>6, Zenon
<1>7. f[N] \in D[N]
  <2> HIDE DEF D, N
  <2> QED BY <1>1, <1>5, <1>6, Chain, Zenon
<1>8. Range(seq) = {seq[i] : i \in 1..N}
  BY DEF Range
<1>9. N \in 0..N
  BY <1>1
<1> QED BY <1>4, <1>7, <1>8, <1>9, Zenon

-----------------------------------------------------------------------------
(* The tokens and the events. *)

LEMMA TableTypes ==
  ASSUME NEW q \in Seq(Tokens)
  PROVE  expire(q) \in Seq(Tokens) /\ Older(q) \in Seq(Tokens)
<1>1. expire(q) \in Seq(Tokens)
  BY FilterFacts, Zenon DEF expire
<1>2. ASSUME NEW e \in Tokens
      PROVE  [e EXCEPT !.age = IF @ < Ttl THEN @ + 1 ELSE @] \in Tokens
  BY DEF Tokens
<1>3. Older(q) \in Seq(Tokens)
  BY <1>2 DEF Older
<1> QED BY <1>1, <1>3, Zenon

\* `mint` keeps the table one of tokens: its oldest entries go, one comes.
LEMMA MintType ==
  ASSUME NEW q \in Seq(Tokens), NEW token \in Nat, NEW route \in Routes
  PROVE  mint(q, token, route) \in Seq(Tokens)
<1> DEFINE live == expire(q)
           new == [token |-> token, route |-> route, age |-> 0]
<1>1. live \in Seq(Tokens) /\ new \in Tokens
  BY TableTypes, Zenon DEF Tokens
<1> HIDE DEF live, new
<1>2. MakeRoom(live) \in Seq(Tokens)
  <2>1. CASE Len(live) < MaxTokens
    BY <1>1, <2>1, Zenon DEF MakeRoom
  <2>2. CASE ~(Len(live) < MaxTokens)
    <3>1. Len(live) \in Nat /\ Len(live) - MaxTokens + 2 \in Nat \ {0}
      BY <1>1, <2>2, BridgeAssumption
    <3> QED BY <1>1, <2>2, <3>1, PartFacts DEF MakeRoom
  <2> QED BY <2>1, <2>2, Zenon
<1>3. Append(MakeRoom(live), new) \in Seq(Tokens)
  BY <1>1, <1>2, AppendFacts, Zenon
<1> QED BY <1>1, <1>3, Zenon DEF mint, live, new

\* The token of a direct message names the lease the message came under.
LEMMA NotificationType ==
  ASSUME NEW q \in Seq(Tokens), NEW x \in Events, NEW token \in Nat
  PROVE  notification(q, x.event, x.under, token) \in Seq(Tokens)
<1>1. CASE x.event.type = "broadcast"
  <2>1. BroadcastRoute(x.event.of) \in Routes
    BY <1>1, Zenon DEF Events, Frames, Routes
  <2> QED BY <1>1, <2>1, MintType, Zenon DEF notification
<1>2. CASE x.event.type # "broadcast" /\ x.under # 0
  <2>1. x.event.of = x.under /\ x.under \in Nat \ {0}
    BY <1>2, Zenon DEF Events, Frames
  <2>2. DirectRoute(x.event.of, x.under) \in Routes
    BY <2>1, Zenon DEF Routes
  <2> QED BY <1>2, <2>2, MintType, Zenon DEF notification
<1>3. CASE x.event.type # "broadcast" /\ x.under = 0
  BY <1>3, Zenon DEF notification
<1> QED BY <1>1, <1>2, <1>3, Zenon

\* What taking an event makes of the lease, the tokens and the queue: a notice
\* ends the lease, an event is queued or told with the lease held then.
Bridgeds(epoch) ==
  {s \in [lease : {0, epoch}, table : Seq(Tokens), queue : Seq(Events), dropped : Nat] :
     Len(s.queue) <= Bound}

LEMMA EmitType ==
  ASSUME NEW epoch \in Nat, NEW s \in Bridgeds(epoch), NEW f \in Frames({epoch}),
         NEW token \in Nat
  PROVE  emit(s, f, token) \in Bridgeds(epoch)
<1>1. /\ s = [lease |-> s.lease, table |-> s.table, queue |-> s.queue, dropped |-> s.dropped]
      /\ s.lease \in {0, epoch} /\ s.table \in Seq(Tokens) /\ s.queue \in Seq(Events)
      /\ s.dropped \in Nat /\ Len(s.queue) <= Bound /\ Len(s.queue) \in Nat
  BY DEF Bridgeds
<1>2. CASE f.type = "notice"
  <2>1. emit(s, f, token) = [s EXCEPT !.lease = IF @ = f.of THEN 0 ELSE @]
    BY <1>2, Zenon DEF emit
  <2> QED BY <1>1, <2>1, Zenon DEF Bridgeds
<1>3. CASE f.type # "notice"
  <2> DEFINE x == [event |-> f, under |-> s.lease]
  <2>1. f \in Frames(Nat) /\ (f.type = "direct" => f.of = epoch)
    BY Zenon DEF Frames
  <2>2. x \in Events
    BY <1>1, <1>3, <2>1 DEF Events
  <2>3. CASE mode = "push"
    <3>1. notification(s.table, f, s.lease, token) \in Seq(Tokens)
      <4>1. x.event = f /\ x.under = s.lease
        BY Zenon
      <4> HIDE DEF x
      <4> QED BY <1>1, <2>2, <4>1, NotificationType, Zenon
    <3>2. emit(s, f, token) = [s EXCEPT !.table = notification(s.table, f, s.lease, token)]
      BY <1>1, <1>3, <2>3, Zenon DEF emit
    <3> QED BY <1>1, <3>1, <3>2, Zenon DEF Bridgeds
  <2>4. CASE mode # "push" /\ Len(s.queue) >= Bound
    <3>1. emit(s, f, token) = [s EXCEPT !.dropped = s.dropped + 1]
      BY <1>1, <1>3, <2>4, Zenon DEF emit
    <3> QED BY <1>1, <3>1 DEF Bridgeds
  <2>5. CASE mode # "push" /\ ~(Len(s.queue) >= Bound)
    <3>1. emit(s, f, token) = [s EXCEPT !.queue = Append(s.queue, x)]
      BY <1>1, <1>3, <2>5, Zenon DEF emit
    <3> HIDE DEF x
    <3>2. Append(s.queue, x) \in Seq(Events) /\ Len(Append(s.queue, x)) <= Bound
      BY <1>1, <2>2, <2>5, BridgeAssumption
    <3> QED BY <1>1, <3>1, <3>2, Zenon DEF Bridgeds
  <2> QED BY <2>3, <2>4, <2>5, Zenon
<1> QED BY <1>2, <1>3, Zenon

LEMMA LeastFacts ==
  ASSUME NEW a \in Int, NEW b \in Int
  PROVE  Least(a, b) \in {a, b} /\ Least(a, b) <= a /\ Least(a, b) <= b
BY DEF Least

\* `events(room)`: however many are taken, lease, tokens and queue stay right.
LEMMA TakeEventsRoutes ==
  ASSUME LoopTypeOK, RouteOK, TakeEvents, UNCHANGED link
  PROVE  RouteOK'
<1> DEFINE n == Least(room, Len(Buffered))
           D == Bridgeds(link.epoch)
<1>1. /\ link.epoch \in Nat /\ wire \in Seq(Frames({link.epoch})) /\ Len(wire) \in Nat
      /\ Len(queue) \in Nat /\ Len(queue) <= Bound /\ Bound \in Nat
      /\ EventBatch \in Nat /\ EventBuffer \in Nat
  BY BridgeAssumption DEF LoopTypeOK, RouteOK, Links
<1>2. n \in Nat /\ n <= Len(wire)
  <2>1. Len(Buffered) = Least(EventBuffer, Len(wire))
    BY <1>1, LeastFacts DEF Buffered
  <2>2. Least(EventBuffer, Len(wire)) \in Nat /\ Least(EventBuffer, Len(wire)) <= Len(wire)
    BY <1>1, LeastFacts
  <2>3. room \in Nat
    BY <1>1, LeastFacts DEF room
  <2> QED BY <1>1, <2>1, <2>2, <2>3, LeastFacts
<1>3. Bridged \in D
  BY Zenon DEF RouteOK, Bridgeds, Bridged
<1> HIDE DEF n, D
<1>4. PICK token \in [1..n -> IF mode = "push" THEN Entropy ELSE {1}] :
        Emitted((CHOOSE g : g = [i \in 0..n |-> IF i = 0 THEN Bridged
                                                ELSE emit(g[i - 1], wire[i], token[i])])[n])
  BY Zenon DEF TakeEvents, n
<1> DEFINE Rule(g, i) == IF i = 0 THEN Bridged ELSE emit(g[i - 1], wire[i], token[i])
           Built(g) == g = [i \in 0..n |-> Rule(g, i)]
           f == CHOOSE g : Built(g)
<1>5. ASSUME NEW i \in 1..n PROVE token[i] \in Nat /\ wire[i] \in Frames({link.epoch})
  <2>1. (IF mode = "push" THEN Entropy ELSE {1}) \subseteq Nat
    BY DEF Entropy
  <2>2. i \in 1..Len(wire)
    BY <1>1, <1>2
  <2> QED BY <1>1, <1>4, <2>1, <2>2
<1>6. ASSUME NEW i \in 1..n, NEW s \in D PROVE emit(s, wire[i], token[i]) \in D
  BY <1>1, <1>5, EmitType, Zenon DEF D
<1>7. \E g : Built(g)
  <2> DEFINE step == [i \in 1..n |-> [s \in D |-> emit(s, wire[i], token[i])]]
  <2>1. step \in [1..n -> [D -> D]]
    BY <1>6, Zenon
  <2>2. PICK g : Runs(g, n, D, Bridged, step)
    <3> HIDE DEF step
    <3> QED BY <1>2, <1>3, <2>1, Recursion, Zenon
  <2>3. ASSUME NEW i \in 0..n PROVE g[i] = Rule(g, i)
    <3>1. CASE i = 0
      BY <2>2, <3>1, Zenon DEF Runs
    <3>2. CASE i # 0
      <4>1. i \in 1..n /\ i - 1 \in 0..n
        BY <1>2, <3>2
      <4>2. g[i] = step[i][g[i - 1]] /\ g[i - 1] \in D
        BY <2>2, <4>1, Zenon DEF Runs
      <4>3. g[i] = emit(g[i - 1], wire[i], token[i])
        BY <4>1, <4>2, Zenon
      <4> QED BY <3>2, <4>3, Zenon
    <3> QED BY <3>1, <3>2, Zenon
  <2>4. g = [i \in 0..n |-> g[i]]
    BY <2>2, Zenon DEF Runs
  <2>5. Built(g)
    <3> HIDE DEF Rule
    <3> QED BY <2>3, <2>4, Zenon
  <2> QED BY <2>5, Zenon
<1>8. Built(f)
  <2> HIDE DEF Built
  <2> QED BY <1>7, Zenon
<1>9. Emitted(f[n])
  BY <1>4, Zenon
<1> HIDE DEF f
<1>10. f[0] = Bridged
  BY <1>2, <1>8
<1>11. ASSUME NEW i \in 1..n, f[i - 1] \in D PROVE f[i] \in D
  <2>1. i \in 0..n /\ i # 0
    BY <1>2
  <2>2. f[i] = emit(f[i - 1], wire[i], token[i])
    BY <1>8, <2>1, Zenon
  <2> QED BY <1>6, <1>11, <2>2, Zenon
<1>12. f[n] \in D
  BY <1>2, <1>3, <1>10, <1>11, ChainIn, Zenon
<1>13. wire' \in Seq(Frames({link.epoch}))
  <2>1. wire' = SubSeq(wire, n + 1, Len(wire))
    BY Zenon DEF TakeEvents, n
  <2> QED BY <1>1, <1>2, <2>1, PartFacts
<1> QED BY <1>9, <1>12, <1>13, Zenon DEF D, Emitted, Bridgeds, RouteOK

\* `receive`: a token is minted under the lease its event arrived under.
LEMMA ReceivedTokens ==
  ASSUME LoopTypeOK, RouteOK, NEW n \in 1..Len(queue),
         Received(n, [i \in 1..n |-> queue[i].under])
  PROVE  RouteOK'
<1> DEFINE D == Seq(Tokens)
           under == [i \in 1..n |-> queue[i].under]
<1>1. n \in Nat /\ n <= Len(queue) /\ Len(queue) \in Nat /\ queue \in Seq(Events) /\ Bound \in Nat
  BY BridgeAssumption DEF RouteOK
<1>2. table \in D
  BY Zenon DEF RouteOK
<1>3. PICK token \in [1..n -> Entropy] :
        table' = (CHOOSE g : g = [i \in 0..n |-> IF i = 0 THEN table
                                                 ELSE notification(g[i - 1], queue[i].event,
                                                                   under[i], token[i])])[n]
  BY Zenon DEF Received
<1> DEFINE Told(q, i) == notification(q, queue[i].event, under[i], token[i])
           Rule(g, i) == IF i = 0 THEN table ELSE Told(g[i - 1], i)
           Built(g) == g = [i \in 0..n |-> Rule(g, i)]
           f == CHOOSE g : Built(g)
<1>4. ASSUME NEW i \in 1..n PROVE token[i] \in Nat /\ queue[i] \in Events /\ under[i] = queue[i].under
  <2>1. Entropy \subseteq Nat /\ i \in 1..Len(queue)
    BY <1>1 DEF Entropy
  <2>2. token[i] \in Entropy
    BY <1>3, Zenon
  <2>3. queue[i] \in Events
    BY <1>1, <2>1
  <2> QED BY <2>1, <2>2, <2>3, Zenon
<1> HIDE DEF D, under
<1>5. ASSUME NEW i \in 1..n, NEW q \in D PROVE Told(q, i) \in D
  BY <1>4, NotificationType, Zenon DEF D
<1> HIDE DEF Told
<1>6. \E g : Built(g)
  <2> DEFINE step == [i \in 1..n |-> [q \in D |-> Told(q, i)]]
  <2>1. step \in [1..n -> [D -> D]]
    BY <1>5, Zenon
  <2>2. PICK g : Runs(g, n, D, table, step)
    <3> HIDE DEF step
    <3> QED BY <1>1, <1>2, <2>1, Recursion, Zenon
  <2>3. ASSUME NEW i \in 0..n PROVE g[i] = Rule(g, i)
    <3>1. CASE i = 0
      BY <2>2, <3>1, Zenon DEF Runs
    <3>2. CASE i # 0
      <4>1. i \in 1..n /\ i - 1 \in 0..n
        BY <1>1, <3>2
      <4>2. g[i] = step[i][g[i - 1]] /\ g[i - 1] \in D
        BY <2>2, <4>1, Zenon DEF Runs
      <4>3. g[i] = Told(g[i - 1], i)
        BY <4>1, <4>2, Zenon
      <4> QED BY <3>2, <4>3, Zenon
    <3> QED BY <3>1, <3>2, Zenon
  <2>4. g = [i \in 0..n |-> g[i]]
    BY <2>2, Zenon DEF Runs
  <2>5. Built(g)
    <3> HIDE DEF Rule
    <3> QED BY <2>3, <2>4, Zenon
  <2> QED BY <2>5, Zenon
<1>7. Built(f)
  <2> HIDE DEF Built
  <2> QED BY <1>6, Zenon
<1>8. table' = f[n]
  BY <1>3, Zenon DEF Told
<1> HIDE DEF f
<1>9. f[0] = table
  BY <1>1, <1>7
<1>10. ASSUME NEW i \in 1..n, f[i - 1] \in D PROVE f[i] \in D
  <2>1. i \in 0..n /\ i # 0
    BY <1>1
  <2>2. f[i] = Told(f[i - 1], i)
    BY <1>7, <2>1, Zenon
  <2> QED BY <1>5, <1>10, <2>2, Zenon
<1>11. f[n] \in D
  BY <1>1, <1>2, <1>9, <1>10, ChainIn, Zenon
<1>12. queue' \in Seq(Events) /\ Len(queue') <= Bound
  <2>1. queue' = SubSeq(queue, n + 1, Len(queue)) /\ Len(queue') <= Len(queue) /\ Len(queue') \in Nat
    BY <1>1 DEF Received
  <2>2. Len(queue) <= Bound
    BY Zenon DEF RouteOK
  <2> QED BY <1>1, <2>1, <2>2, PartFacts
<1> QED BY <1>8, <1>11, <1>12, Zenon DEF D, Received, RouteOK, daemon, history

-----------------------------------------------------------------------------
(* Steps that leave the channels and the call being driven alone. *)

LEMMA SpendType ==
  ASSUME LoopTypeOK, NEW what \in Things, Spend(what)
  PROVE  budget' \in [Things -> Nat]
BY DEF LoopTypeOK, Spend

LoopInv == LoopTypeOK /\ DoingOK /\ FirmOK /\ AgreeOK /\ ReplyStaysInItsLease

\* What the loop's invariant is about.
LEMMA SameLoop ==
  ASSUME LoopInv, budget' \in [Things -> Nat],
         UNCHANGED <<mode, joined, refused, doubt, firm, pending, session, doing, asked>>,
         link' \in Links,
         link'.alive = link.alive, link'.epoch = link.epoch, link'.held = link.held,
         answer' \in Answers,
         answer'.code = answer.code
  PROVE  LoopInv'
<1>1. LoopTypeOK' /\ DoingOK'
  BY Zenon DEF LoopInv, LoopTypeOK, DoingOK
<1>2. FirmOK'
  BY Zenon DEF LoopInv, FirmOK, JoinsOutliveSessions, Wanting
<1>3. ReplyStaysInItsLease'
  BY Zenon DEF LoopInv, ReplyStaysInItsLease
<1>4. Driven' <=> Driven
  BY Zenon DEF Driven, Call
<1>5. UnheardOK' <=> UnheardOK
  BY Zenon DEF UnheardOK, InQuestion
<1>6. AnswerOK' <=> AnswerOK
  BY Zenon DEF AnswerOK, Call
<1>7. HeldOK' <=> HeldOK
  BY Zenon DEF HeldOK, InQuestion, Current, Call, Later
<1> QED BY <1>1, <1>2, <1>3, <1>4, <1>5, <1>6, <1>7, Zenon DEF LoopInv, AgreeOK

LEMMA ArrivesInv ==
  ASSUME BridgeInv, DirectArrives \/ BroadcastArrives \/ LeaseRevoked
  PROVE  BridgeInv'
<1>1. LoopInv /\ LoopTypeOK /\ RouteOK
  BY Zenon DEF BridgeInv, LoopInv
<1>2. /\ link = [alive |-> link.alive, epoch |-> link.epoch, leased |-> link.leased,
                 held |-> link.held]
      /\ link.alive \in BOOLEAN /\ link.epoch \in Nat /\ link.held \subseteq Channels
  BY <1>1, Zenon DEF LoopTypeOK, Links
<1>3. PICK f \in Frames({link.epoch}) : Deliver(f)
  <2>1. Frame("direct", link.epoch) \in Frames({link.epoch}) /\ Frame("notice", link.epoch) \in Frames({link.epoch})
    BY Zenon DEF Frame, Frames
  <2>2. \A c \in link.held : Frame("broadcast", c) \in Frames({link.epoch})
    BY <1>2, Zenon DEF Frame, Frames
  <2> QED BY <2>1, <2>2, Zenon DEF DirectArrives, BroadcastArrives, LeaseRevoked
<1>4. budget' \in [Things -> Nat]
  BY <1>1, SpendType, Zenon DEF DirectArrives, BroadcastArrives, LeaseRevoked, Things
<1>5. link' = link \/ link' = [link EXCEPT !.leased = FALSE]
  BY Zenon DEF DirectArrives, BroadcastArrives, LeaseRevoked
<1>6. /\ link' \in Links
      /\ link'.alive = link.alive /\ link'.epoch = link.epoch /\ link'.held = link.held
  BY <1>2, <1>5, <1>1, Zenon DEF LoopTypeOK, Links
<1>7. answer' \in Answers
  BY <1>1, <1>3, Zenon DEF Deliver, LoopTypeOK
<1>8. LoopInv'
  BY <1>1, <1>3, <1>4, <1>6, <1>7, SameLoop, Zenon DEF Deliver, bridge, history
<1>9. RouteOK'
  BY <1>1, <1>3, <1>6, AppendFacts, Zenon DEF Deliver, bridge, history, RouteOK
<1> QED BY <1>8, <1>9, Zenon DEF BridgeInv, LoopInv

\* Events taken with no call to drop, and a tick of the tokens' age.
LEMMA PumpInv ==
  ASSUME BridgeInv, pump \/ receive \/ Tick
  PROVE  BridgeInv'
<1>1. LoopInv /\ LoopTypeOK /\ RouteOK
  BY Zenon DEF BridgeInv, LoopInv
<1>2. budget' \in [Things -> Nat]
  BY <1>1, SpendType, Zenon DEF LoopTypeOK, pump, receive, Received, Tick, Things
<1>3. /\ UNCHANGED <<mode, joined, refused, doubt, firm, pending, session, doing, asked>>
      /\ UNCHANGED <<link, answer>>
  BY Zenon DEF pump, receive, Received, Tick, daemon, history
<1>4. LoopInv'
  BY <1>1, <1>2, <1>3, SameLoop, Zenon DEF LoopTypeOK
<1>5. ASSUME pump PROVE RouteOK'
  BY <1>1, <1>3, <1>5, TakeEventsRoutes, Zenon DEF pump
<1>6. ASSUME receive PROVE RouteOK'
  BY <1>1, <1>6, ReceivedTokens, Zenon DEF receive
<1>7. ASSUME Tick PROVE RouteOK'
  BY <1>1, <1>7, TableTypes, Zenon DEF Tick, RouteOK, daemon, history
<1> QED BY <1>4, <1>5, <1>6, <1>7, Zenon DEF BridgeInv, LoopInv

-----------------------------------------------------------------------------
(* The daemon performs, discards or gives up what it was asked. *)

\* A call that is heard is the one being driven, and the last.
LEMMA HeardIsDriven ==
  ASSUME LoopInv, link.alive, NEW i \in DOMAIN asked, asked[i].heard
  PROVE  doing # Idle /\ answer.code = "none" /\ i = Len(asked) /\ asked[i] = Call
BY Zenon DEF LoopInv, AgreeOK, Driven, LoopTypeOK

\* The call being driven is one, and heard.
LEMMA DrivenCall ==
  ASSUME LoopInv, doing # Idle
  PROVE  /\ doing.rest # << >> /\ doing.rest \in Seq(Calls) /\ Call \in Calls /\ Call.heard
         /\ Call = doing.rest[1] /\ 1 \in DOMAIN doing.rest
         /\ doing.at \in {"open", "call", "resolve"} /\ RestOK(doing.at, doing.rest)
<1>1. doing.rest \in Seq(Calls) /\ doing.rest # << >> /\ doing.at \in {"open", "call", "resolve"}
  BY Zenon DEF LoopInv, LoopTypeOK, Idle
<1>2. Call \in Calls /\ Call = doing.rest[1] /\ 1 \in DOMAIN doing.rest
  BY <1>1, TailFacts, Zenon DEF Call
<1> QED BY <1>1, <1>2, Zenon DEF LoopInv, DoingOK, RestOK

\* The oldest call is performed, refused or, heard by nobody, discarded: `held`
\* changes at most in its channel.
LEMMA PerformedInv ==
  ASSUME BridgeInv, link.alive, asked # << >>, budget' \in [Things -> Nat],
         NEW code \in {"ok", "refused"}, Performed(code),
         NEW h \in SUBSET Channels, link' = [link EXCEPT !.held = h],
         \A c \in Channels : (c \in h <=> c \in link.held)
                               \/ (Head(asked).op \in Memberships /\ Head(asked).of = c),
         Head(asked).heard /\ Head(asked).op \in Memberships =>
           /\ code = "ok" => (Head(asked).of \in h <=> Head(asked).op = "join")
           /\ code = "refused" => Head(asked).op = "join" /\ Head(asked).of \notin h /\ h = link.held
  PROVE  BridgeInv'
<1> DEFINE call == Head(asked)
<1>1. LoopInv /\ LoopTypeOK /\ RouteOK /\ Driven /\ UnheardOK /\ AnswerOK /\ HeldOK
  BY Zenon DEF BridgeInv, LoopInv, AgreeOK
<1>2. /\ asked \in Seq(Calls) /\ asked' = Tail(asked) /\ asked' \in Seq(Calls)
      /\ call = asked[1] /\ 1 \in DOMAIN asked /\ call \in Calls
      /\ Len(asked) \in Nat \ {0} /\ Len(asked') = Len(asked) - 1
      /\ DOMAIN asked = 1..Len(asked) /\ DOMAIN asked' = 1..(Len(asked) - 1)
      /\ \A i \in DOMAIN asked' : asked'[i] = asked[i + 1] /\ i + 1 \in DOMAIN asked
  BY <1>1, TailFacts DEF LoopTypeOK, Performed
<1>3. /\ UNCHANGED <<mode, joined, refused, doubt, firm, pending, session, doing, Call>>
      /\ UNCHANGED <<lease, table, queue, wire, dropped>>
  BY Zenon DEF Performed, bridge, history, Call
<1>4. /\ link'.alive /\ link'.held = h /\ link'.epoch = link.epoch
      /\ link' \in Links
  BY <1>1, Zenon DEF LoopTypeOK, Links
<1>5. answer' = IF call.heard THEN [code |-> code, behind |-> Len(wire)] ELSE answer
  BY Zenon DEF Performed
<1> HIDE DEF call
<1>6. RouteOK'
  BY <1>1, <1>3, <1>4, Zenon DEF RouteOK
<1>7. answer' \in Answers
  BY <1>1, <1>5 DEF LoopTypeOK, RouteOK, Answers
<1>8. LoopTypeOK' /\ DoingOK' /\ FirmOK'
  <2>1. LoopTypeOK'
    BY <1>1, <1>2, <1>3, <1>4, <1>7, Zenon DEF LoopTypeOK
  <2>2. DoingOK' /\ FirmOK'
    BY <1>1, <1>3, <1>4, Zenon DEF LoopInv, DoingOK, FirmOK, JoinsOutliveSessions, Wanting
  <2> QED BY <2>1, <2>2, Zenon
<1>9. ReplyStaysInItsLease'
  BY <1>1, <1>2, <1>4 DEF LoopInv, ReplyStaysInItsLease
<1>10. UnheardOK'
  BY <1>1, <1>2, <1>3 DEF UnheardOK, InQuestion
<1>11. CASE call.heard
  <2>1. doing # Idle /\ answer.code = "none" /\ Len(asked) = 1 /\ call = Call
    BY <1>1, <1>2, <1>11, HeardIsDriven, Zenon
  <2>2. answer'.code = code /\ asked' = << >> /\ DOMAIN asked' = {}
    BY <1>2, <1>5, <1>11, <2>1
  <2>3. Driven' /\ AnswerOK'
    BY <1>3, <1>4, <1>11, <2>1, <2>2, Zenon DEF Driven, AnswerOK, call
  <2>4. HeldOK'
    <3> SUFFICES ASSUME NEW c \in Channels, ~InQuestion(c)'
                 PROVE  /\ doing.at = "open" /\ ~Current(c) => (c \in joined <=> c \in h \cup Later)
                        /\ doing.at # "open" /\ (~Current(c) \/ code # "ok")
                             => (c \in joined <=> c \in h)
      BY <1>3, <1>4, <2>2, Zenon DEF HeldOK, Current, Later
    <3>1. ~InQuestion(c)
      BY <1>3, Zenon DEF InQuestion
    <3>2. ~Current(c) => (c \in h <=> c \in link.held)
      BY <2>1, Zenon DEF Current, call
    <3>3. Current(c) /\ code # "ok" => h = link.held
      BY <1>11, <2>1, Zenon DEF Current, call
    <3> QED BY <1>1, <2>1, <3>1, <3>2, <3>3, Zenon DEF HeldOK
  <2> QED BY <1>4, <1>6, <1>8, <1>9, <1>10, <2>3, <2>4, Zenon DEF BridgeInv, AgreeOK
<1>12. CASE ~call.heard
  <2>1. call.op \in Memberships => InQuestion(call.of)
    BY <1>1, <1>2, <1>12, Zenon DEF UnheardOK
  <2>2. answer' = answer
    BY <1>5, <1>12, Zenon
  <2>3. doing # Idle /\ answer.code = "none" => Len(asked) # 1
    <3> SUFFICES ASSUME doing # Idle, answer.code = "none" PROVE Len(asked) # 1
      BY Zenon
    <3>1. asked[Len(asked)] = Call /\ Call.heard
      BY <1>1, DrivenCall, Zenon DEF Driven
    <3> QED BY <1>2, <1>12, <3>1, Zenon
  <2>4. Driven'
    <3>1. asked # << >> => answer.code \notin {"ok", "refused"}
      BY <1>1, Zenon DEF Driven
    <3>2. \A i \in DOMAIN asked' : asked'[i].heard => asked[i + 1].heard /\ i + 1 \in DOMAIN asked
      BY <1>2, Zenon
    <3>3. doing # Idle /\ answer.code = "none" =>
            asked' # << >> /\ asked'[Len(asked')] = Call /\ \A i \in DOMAIN asked' : asked'[i].heard => i = Len(asked')
      BY <1>1, <1>2, <2>3 DEF Driven
    <3> QED BY <1>1, <1>2, <1>3, <2>2, <3>1, <3>2, <3>3, Zenon DEF Driven
  <2>5. AnswerOK'
    <3>1. answer.code \notin {"ok", "refused"}
      BY <1>1, Zenon DEF Driven
    <3> QED BY <1>1, <1>3, <1>4, <2>2, <3>1, Zenon DEF AnswerOK
  <2>6. HeldOK'
    <3> SUFFICES ASSUME NEW c \in Channels, ~InQuestion(c)'
                 PROVE  /\ doing.at = "open" /\ ~Current(c) => (c \in joined <=> c \in h \cup Later)
                        /\ doing.at # "open" /\ (~Current(c) \/ answer.code # "ok")
                             => (c \in joined <=> c \in h)
      BY <1>3, <1>4, <2>2, Zenon DEF HeldOK, Current, Later
    <3>1. ~InQuestion(c)
      BY <1>3, Zenon DEF InQuestion
    <3>2. c \in h <=> c \in link.held
      BY <2>1, <3>1, Zenon DEF call
    <3> QED BY <1>1, <3>1, <3>2, Zenon DEF HeldOK
  <2> QED BY <1>4, <1>6, <1>8, <1>9, <1>10, <2>4, <2>5, <2>6, Zenon DEF BridgeInv, AgreeOK
<1> QED BY <1>11, <1>12, Zenon

LEMMA PerformInv ==
  ASSUME BridgeInv, Perform \/ RefuseJoin \/ Discard
  PROVE  BridgeInv'
<1>1. /\ LoopTypeOK /\ link.alive /\ asked # << >> /\ Head(asked) \in Calls
      /\ link.held \subseteq Channels /\ link = [link EXCEPT !.held = link.held]
  BY TailFacts, Zenon DEF BridgeInv, LoopTypeOK, Perform, RefuseJoin, Discard, Links
<1>2. CASE Perform
  <2> DEFINE call == Head(asked)
             h == CASE call.op = "join" -> link.held \cup {call.of}
                    [] call.op = "leave" -> link.held \ {call.of}
                    [] OTHER -> link.held
             code == IF call.op = "broadcast" /\ call.of \notin link.held THEN "refused" ELSE "ok"
  <2>1. Performed(code) /\ link' = [link EXCEPT !.held = h] /\ budget' = budget
    BY <1>2, Zenon DEF Perform
  <2>2. h \in SUBSET Channels /\ code \in {"ok", "refused"}
    BY <1>1, Zenon DEF Calls, Memberships
  <2>3. /\ \A c \in Channels : (c \in h <=> c \in link.held) \/ (call.op \in Memberships /\ call.of = c)
        /\ call.op \in Memberships => code = "ok" /\ (call.of \in h <=> call.op = "join")
    BY Zenon DEF Memberships
  <2>4. budget' \in [Things -> Nat]
    BY <1>1, <2>1, Zenon DEF LoopTypeOK
  <2> HIDE DEF h, code
  <2> QED BY <1>1, <2>1, <2>2, <2>3, <2>4, PerformedInv, Zenon
<1>3. CASE RefuseJoin
  <2>1. budget' \in [Things -> Nat]
    BY <1>1, <1>3, SpendType, Zenon DEF RefuseJoin, Things
  <2> QED BY <1>1, <1>3, <2>1, PerformedInv, Zenon DEF RefuseJoin
<1>4. CASE Discard
  <2>1. Performed("ok") /\ ~Head(asked).heard /\ link' = link
    BY <1>4, Zenon DEF Discard, Performed
  <2>2. budget' \in [Things -> Nat]
    BY <1>1, <1>4, Zenon DEF Discard, LoopTypeOK
  <2> QED BY <1>1, <2>1, <2>2, PerformedInv, Zenon
<1> QED BY <1>2, <1>3, <1>4, Zenon

\* A deadline makes the call it answers doubtful.
LEMMA DeadlineInv ==
  ASSUME BridgeInv, Deadline
  PROVE  BridgeInv'
<1>1. LoopInv /\ LoopTypeOK /\ RouteOK /\ link.alive /\ Driven /\ UnheardOK /\ HeldOK
  BY Zenon DEF BridgeInv, LoopInv, AgreeOK, Deadline
<1>2. PICK i \in DOMAIN asked :
        /\ asked[i].heard
        /\ asked' = [asked EXCEPT ![i].heard = FALSE]
        /\ doubt' = IF asked[i].op \in {"join", "leave"} THEN doubt \cup {asked[i].of} ELSE doubt
  BY Zenon DEF Deadline
<1>3. doing # Idle /\ answer.code = "none" /\ i = Len(asked) /\ asked[i] = Call
  BY <1>1, <1>2, HeardIsDriven, Zenon
<1>4. /\ UNCHANGED <<mode, joined, refused, firm, pending, session, doing, link, Call, Later>>
      /\ UNCHANGED <<lease, table, queue, wire, dropped>>
      /\ answer' = [code |-> "timeout", behind |-> Len(wire)]
  BY DEF Deadline, bridge, Call, Later
<1>5. asked \in Seq(Calls) /\ asked[i] \in Calls
  BY <1>1 DEF LoopTypeOK
<1>6. /\ asked' \in Seq(Calls) /\ DOMAIN asked' = DOMAIN asked
      /\ \A j \in DOMAIN asked : asked'[j].op = asked[j].op /\ asked'[j].of = asked[j].of /\ ~asked'[j].heard
  <2>1. [asked[i] EXCEPT !.heard = FALSE] \in Calls
    BY <1>5, Zenon DEF Calls
  <2>2. asked' = [j \in DOMAIN asked |-> IF j = i THEN [asked[i] EXCEPT !.heard = FALSE] ELSE asked[j]]
    BY <1>2, <1>5, Zenon
  <2>3. asked' \in Seq(Calls) /\ DOMAIN asked' = DOMAIN asked
    <3> DEFINE x == [asked[i] EXCEPT !.heard = FALSE]
    <3>1. asked' = [j \in 1..Len(asked) |-> IF j = i THEN x ELSE asked[j]]
      <4>1. DOMAIN asked = 1..Len(asked)
        BY <1>5
      <4> QED BY <2>2, <4>1, Zenon
    <3> HIDE DEF x
    <3>2. x \in Calls
      BY <2>1, Zenon DEF x
    <3> QED BY <1>5, <3>1, <3>2
  <2>4. \A j \in DOMAIN asked : asked[j].heard => j = i
    BY <1>1, <1>3, Zenon DEF Driven
  <2>5. /\ [asked[i] EXCEPT !.heard = FALSE].op = asked[i].op
        /\ [asked[i] EXCEPT !.heard = FALSE].of = asked[i].of
        /\ ~[asked[i] EXCEPT !.heard = FALSE].heard
    BY <1>5, Zenon DEF Calls
  <2> QED BY <2>2, <2>3, <2>4, <2>5, Zenon
<1>7. doubt \subseteq doubt' /\ doubt' \subseteq Channels
      /\ (Call.op \in Memberships => Call.of \in doubt')
  BY <1>1, <1>2, <1>3, <1>5, Zenon DEF LoopTypeOK, Calls, Memberships
<1>8. budget' \in [Things -> Nat] /\ Len(wire) \in Nat
  BY <1>1, SpendType DEF Deadline, Things, RouteOK
<1>9. LoopTypeOK' /\ RouteOK' /\ DoingOK'
  BY <1>1, <1>4, <1>6, <1>7, <1>8, Zenon DEF LoopInv, LoopTypeOK, RouteOK, DoingOK, Answers
<1>10. FirmOK'
  BY <1>1, <1>4, Zenon DEF LoopInv, FirmOK, JoinsOutliveSessions, Wanting
<1>11. ReplyStaysInItsLease'
  BY <1>1, <1>4, <1>6, Zenon DEF LoopInv, ReplyStaysInItsLease
<1>12. UnheardOK'
  <2> SUFFICES ASSUME NEW j \in DOMAIN asked, asked[j].op \in Memberships
               PROVE  InQuestion(asked[j].of)'
    BY <1>6, Zenon DEF UnheardOK, InQuestion
  <2>1. CASE j = i
    BY <1>3, <1>6, <1>7, <2>1, Zenon DEF InQuestion
  <2>2. CASE j # i
    <3>1. ~asked[j].heard
      BY <1>1, <1>3, <2>2, Zenon DEF Driven
    <3> QED BY <1>1, <1>4, <1>6, <1>7, <3>1, Zenon DEF UnheardOK, InQuestion
  <2> QED BY <2>1, <2>2, Zenon
<1>13. Driven' /\ AnswerOK'
  BY <1>3, <1>4, <1>6, <1>7, Zenon DEF Driven, AnswerOK
<1>14. HeldOK'
  <2> SUFFICES ASSUME NEW c \in Channels, ~InQuestion(c)'
               PROVE  /\ doing.at = "open" /\ ~Current(c) => (c \in joined <=> c \in link.held \cup Later)
                      /\ doing.at # "open" => (c \in joined <=> c \in link.held)
    BY <1>4, Zenon DEF HeldOK, Current
  <2>1. ~InQuestion(c) /\ ~Current(c)
    BY <1>4, <1>7, Zenon DEF InQuestion, Current
  <2> QED BY <1>1, <2>1, Zenon DEF HeldOK
<1> QED BY <1>1, <1>4, <1>9, <1>10, <1>11, <1>12, <1>13, <1>14, Zenon DEF BridgeInv, AgreeOK

\* With the connection the daemon forgets what it was asked; an answer of `open`
\* or `resolve_pending` that is the session's end drops it.
CutShort == DriveAnswer /\ doing.at # "call" /\ Dropped /\ lease' = 0 /\ Same /\ UNCHANGED pending

LEMMA EndsInv ==
  ASSUME BridgeInv, SessionEnds \/ lost \/ CutShort
  PROVE  BridgeInv'
<1>1. LoopInv /\ LoopTypeOK /\ RouteOK
  BY Zenon DEF BridgeInv, LoopInv
<1>2. /\ link' = [link EXCEPT !.alive = FALSE] /\ asked' = << >>
      /\ UNCHANGED <<mode, joined, refused, firm, pending, table, queue, dropped>>
      /\ (doing' = doing /\ session' = session) \/ (doing' = Idle /\ session' = FALSE)
      /\ lease' \in {lease, 0} /\ doubt' \in {doubt, {}}
  <2>1. CASE SessionEnds
    BY <2>1, Zenon DEF SessionEnds, bridge, history
  <2>2. CASE lost
    BY <2>2, Zenon DEF lost, Dropped
  <2>3. CASE CutShort
    <3>1. ~link'.alive
      BY <1>1, <2>3, Zenon DEF CutShort, Dropped, LoopTypeOK, Links
    <3> QED BY <2>3, <3>1, Zenon DEF CutShort, Dropped, Same, DriveAnswer
  <2> QED BY <2>1, <2>2, <2>3, Zenon
<1>3. /\ link' \in Links
      /\ ~link'.alive /\ link'.epoch = link.epoch
  BY <1>1, <1>2, Zenon DEF LoopTypeOK, Links
<1>4. budget' \in [Things -> Nat]
  BY <1>1, SpendType, Zenon DEF SessionEnds, lost, CutShort, DriveAnswer, LoopTypeOK, Things
<1>5. wire' \in Seq(Frames({link.epoch})) /\ answer' \in {answer, NoAnswer}
  <2>1. CASE lost \/ CutShort
    <3>1. wire' = << >> /\ answer' = NoAnswer
      BY <2>1, Zenon DEF lost, CutShort, Dropped
    <3> QED BY <3>1
  <2>2. CASE SessionEnds
    <3>1. PICK k \in 0..Len(Buffered) :
            wire' = SubSeq(wire, 1, k) /\ answer' = IF answer.behind <= k THEN answer ELSE NoAnswer
      BY <2>2, Zenon DEF SessionEnds
    <3>2. wire \in Seq(Frames({link.epoch})) /\ Len(wire) \in Nat /\ EventBuffer \in Nat
      BY <1>1, BridgeAssumption DEF RouteOK
    <3>3. Len(Buffered) = Least(EventBuffer, Len(wire)) /\ Len(Buffered) <= Len(wire)
      BY <3>2, LeastFacts DEF Buffered
    <3>4. k \in Int /\ k <= Len(wire)
      BY <3>2, <3>3, LeastFacts
    <3> QED BY <3>1, <3>2, <3>4, PartFacts
  <2> QED BY <2>1, <2>2, Zenon
<1>6. << >> \in Seq(Calls)
  OBVIOUS
<1>7. LoopTypeOK'
  <2>1. /\ doing' \in [at : {"idle", "open", "call", "resolve"}, rest : Seq(Calls)]
        /\ doing'.at = "idle" <=> doing'.rest = << >>
    <3>1. CASE doing' = doing
      BY <1>1, <3>1, Zenon DEF LoopTypeOK
    <3>2. CASE doing' = Idle
      BY <1>6, <3>2, Zenon DEF Idle
    <3> QED BY <1>2, <3>1, <3>2, Zenon
  <2>2. answer' \in Answers
    BY <1>1, <1>5 DEF LoopTypeOK, NoAnswer, Answers
  <2> QED BY <1>1, <1>2, <1>3, <1>4, <1>6, <2>1, <2>2, Zenon DEF LoopTypeOK
<1>8. RouteOK'
  BY <1>1, <1>2, <1>3, <1>5, Zenon DEF RouteOK
<1>9. DoingOK' /\ FirmOK'
  BY <1>1, <1>2, <1>3 DEF LoopInv, DoingOK, RestOK, FirmOK, JoinsOutliveSessions, Wanting, Idle
<1> QED BY <1>2, <1>3, <1>7, <1>8, <1>9 DEF BridgeInv, AgreeOK, ReplyStaysInItsLease

-----------------------------------------------------------------------------
(* A call is driven, and the loop goes on with the rest. *)

\* The next call of `rest` is asked after `calls`, which nobody hears any more.
LEMMA ContinueOK ==
  ASSUME LoopTypeOK, NEW at \in {"open", "call", "resolve"}, NEW rest \in Seq(Calls),
         NEW calls \in Seq(Calls), Continue(at, rest, calls), RestOK(at, rest), link' \in Links,
         ~link'.alive => calls = << >>,
         link'.alive => answer'.code = "none" /\ (session \/ at = "open"),
         at = "call" /\ rest # << >> => pending' = NothingPending,
         \A i \in DOMAIN calls :
           /\ ~calls[i].heard
           /\ link'.alive /\ calls[i].op \in Memberships =>
                pending'[calls[i].of] # "none" \/ calls[i].of \in doubt'
           /\ calls[i].op = "send" /\ calls[i].of # 0 => calls[i].of = link'.epoch,
         rest # << >> /\ Head(rest).op = "send" /\ Head(rest).of # 0 => Head(rest).of = link'.epoch
  PROVE  /\ doing' \in [at : {"idle", "open", "call", "resolve"}, rest : Seq(Calls)]
         /\ doing'.at = "idle" <=> doing'.rest = << >>
         /\ doing'.rest = rest /\ (rest = << >> <=> doing' = Idle) /\ (rest # << >> => doing'.at = at)
         /\ session' \in BOOLEAN /\ asked' \in Seq(Calls)
         /\ DoingOK' /\ ReplyStaysInItsLease' /\ (HeldOK' => AgreeOK')
<1>1. << >> \in Seq(Calls)
  OBVIOUS
<1>2. /\ doing' \in [at : {"idle", "open", "call", "resolve"}, rest : Seq(Calls)]
      /\ doing'.at = "idle" <=> doing'.rest = << >>
      /\ doing'.rest = rest /\ (rest = << >> <=> doing' = Idle) /\ (rest # << >> => doing'.at = at)
  <2>1. CASE rest = << >>
    BY <1>1, <2>1, Zenon DEF Continue, Idle
  <2>2. CASE rest # << >>
    BY <2>2, Zenon DEF Continue, Idle
  <2> QED BY <2>1, <2>2, Zenon
<1>3. session' = (session \/ (at = "open" /\ rest = << >>)) /\ session' \in BOOLEAN
  BY Zenon DEF Continue, LoopTypeOK
<1>4. DoingOK'
  <2>1. CASE rest = << >>
    BY <1>2, <1>3, <2>1, Zenon DEF DoingOK, RestOK, Idle
  <2>2. CASE rest # << >>
    BY <1>2, <1>3, <2>2, Zenon DEF DoingOK
  <2> QED BY <2>1, <2>2, Zenon
<1>5. CASE rest = << >> \/ ~link'.alive
  <2>1. asked' = calls
    BY <1>5, Zenon DEF Continue
  <2>2. ReplyStaysInItsLease'
    BY <2>1, Zenon DEF ReplyStaysInItsLease
  <2>3. ASSUME link'.alive PROVE Driven' /\ UnheardOK' /\ AnswerOK'
    BY <1>2, <1>5, <2>1, <2>3, Zenon DEF Driven, UnheardOK, InQuestion, AnswerOK
  <2> QED BY <1>2, <1>3, <1>4, <2>1, <2>2, <2>3, Zenon DEF AgreeOK
<1>6. CASE rest # << >> /\ link'.alive
  <2> DEFINE call == Head(rest)
  <2>1. asked' = Append(calls, call)
    BY <1>6, Zenon DEF Continue
  <2>2. call \in Calls /\ call.heard
    BY <1>6, TailFacts DEF RestOK
  <2>3. Call' = call
    BY <1>2, Zenon DEF Call
  <2> HIDE DEF call
  <2>4. /\ asked' \in Seq(Calls) /\ asked' # << >> /\ Len(asked') = Len(calls) + 1
        /\ asked'[Len(calls) + 1] = call /\ Len(calls) \in Nat
        /\ \A i \in DOMAIN asked' : i = Len(asked') \/ (i \in DOMAIN calls /\ asked'[i] = calls[i])
    <3>1. \A i \in 1..(Len(calls) + 1) : i = Len(calls) + 1 \/ i \in 1..Len(calls)
      OBVIOUS
    <3> QED BY <2>1, <2>2, <3>1, AppendFacts
  <2>5. ReplyStaysInItsLease'
    BY <1>6, <2>4, Zenon DEF ReplyStaysInItsLease, call
  <2>6. Driven'
    BY <1>2, <1>6, <2>3, <2>4, Zenon DEF Driven
  <2>7. UnheardOK' /\ AnswerOK'
    BY <1>6, <2>2, <2>4, Zenon DEF UnheardOK, InQuestion, AnswerOK
  <2> QED BY <1>2, <1>3, <1>4, <1>6, <2>4, <2>5, <2>6, <2>7, Zenon DEF AgreeOK
<1> QED BY <1>5, <1>6, Zenon

\* A call starts: the host's, or what was pending asked again.
LEMMA StartsInv ==
  ASSUME BridgeInv, doing = Idle, session, budget' \in [Things -> Nat],
         UNCHANGED <<mode, lease, joined, refused, pending, queue, link, wire, answer, dropped, doubt>>,
         table' \in Seq(Tokens), firm' \subseteq firm,
         NEW at \in {"call", "resolve"}, NEW rest \in Seq(Calls), RestOK(at, rest),
         Continue(at, rest, asked),
         at = "call" => pending = NothingPending,
         \A i \in DOMAIN rest : rest[i].op = "leave" => rest[i].of \notin firm',
         rest # << >> /\ Head(rest).op = "send" /\ Head(rest).of # 0 => Head(rest).of = link.epoch
  PROVE  BridgeInv'
<1>1. LoopInv /\ LoopTypeOK /\ RouteOK /\ link \in Links /\ asked \in Seq(Calls)
  BY Zenon DEF BridgeInv, LoopInv, LoopTypeOK
<1>2. link.alive => answer.code = "none" /\ HeldOK /\ \A i \in DOMAIN asked : ~asked[i].heard
  BY <1>1, Zenon DEF LoopInv, AgreeOK, Driven
<1>3. ~link.alive => asked = << >>
  BY <1>1, Zenon DEF LoopInv, AgreeOK
<1>4. \A i \in DOMAIN asked :
        /\ ~asked[i].heard
        /\ link'.alive /\ asked[i].op \in Memberships =>
             pending'[asked[i].of] # "none" \/ asked[i].of \in doubt'
        /\ asked[i].op = "send" /\ asked[i].of # 0 => asked[i].of = link'.epoch
  BY <1>1, <1>2, <1>3 DEF LoopInv, AgreeOK, UnheardOK, InQuestion, ReplyStaysInItsLease
<1>5. /\ doing' \in [at : {"idle", "open", "call", "resolve"}, rest : Seq(Calls)]
      /\ doing'.at = "idle" <=> doing'.rest = << >>
      /\ doing'.rest = rest /\ (rest = << >> <=> doing' = Idle) /\ (rest # << >> => doing'.at = at)
      /\ session' \in BOOLEAN /\ asked' \in Seq(Calls)
      /\ DoingOK' /\ ReplyStaysInItsLease' /\ (HeldOK' => AgreeOK')
  BY <1>1, <1>2, <1>3, <1>4, ContinueOK
<1>6. link.alive => HeldOK'
  <2> SUFFICES ASSUME link.alive PROVE HeldOK'
    BY Zenon
  <2>1. doing'.at # "open" /\ doing.at # "open" /\ \A c : ~Current(c)
    BY <1>5, Zenon DEF Idle, Current
  <2> QED BY <1>2, <2>1, Zenon DEF HeldOK, InQuestion
<1>7. AgreeOK'
  BY <1>5, <1>6, <1>3, Zenon DEF AgreeOK, Continue
<1>8. LoopTypeOK' /\ RouteOK'
  BY <1>1, <1>5, Zenon DEF LoopTypeOK, RouteOK
<1>9. FirmOK'
  BY <1>1, <1>5, Zenon DEF LoopInv, FirmOK, JoinsOutliveSessions, Wanting
<1> QED BY <1>5, <1>7, <1>8, <1>9, Zenon DEF BridgeInv

\* The channels of a set, in their order.
LEMMA InFacts ==
  ASSUME NEW set \in SUBSET Channels
  PROVE  In(set) \in Seq(Channels) /\ Range(In(set)) = set /\ Once(In(set))
<1>1. ChannelOrder \in Seq(Channels) /\ Range(ChannelOrder) = Channels /\ Once(ChannelOrder)
  BY BridgeAssumption, Zenon DEF Once
<1>2. /\ In(set) \in Seq(Channels) /\ Range(In(set)) = Range(ChannelOrder) \cap set
      /\ Once(In(set))
  BY <1>1, FilterFacts, Zenon DEF In
<1> QED BY <1>1, <1>2, Zenon

LEMMA ResolvePendingInv ==
  ASSUME BridgeInv, resolve_pending
  PROVE  BridgeInv'
<1> DEFINE asking == In({c \in Channels : pending[c] # "none"})
           rest == [i \in DOMAIN asking |-> Op(pending[asking[i]], asking[i])]
<1>1. LoopTypeOK /\ RouteOK /\ FirmOK /\ pending \in [Channels -> {"none"} \cup Memberships]
  BY Zenon DEF BridgeInv, LoopTypeOK
<1>2. asking \in Seq(Channels) /\ Range(asking) = {c \in Channels : pending[c] # "none"}
  BY InFacts, Zenon
<1>3. Continue("resolve", rest, asked)
  BY Zenon DEF resolve_pending
<1> HIDE DEF asking
<1>4. ASSUME NEW i \in DOMAIN asking
      PROVE  rest[i] \in Calls /\ rest[i].heard /\ rest[i].op \in Memberships
             /\ rest[i].op = pending[rest[i].of] /\ rest[i].of \in Channels
  <2>1. asking[i] \in Channels /\ pending[asking[i]] \in Memberships
    BY <1>1, <1>2, Zenon DEF Range
  <2> QED BY <2>1, Zenon DEF Op, Calls
<1>5. rest \in Seq(Calls) /\ DOMAIN rest = DOMAIN asking
  <2>1. DOMAIN asking = 1..Len(asking) /\ Len(asking) \in Nat
    BY <1>2
  <2>2. \A i \in 1..Len(asking) : rest[i] \in Calls
    BY <1>4, <2>1, Zenon
  <2>3. rest = [i \in 1..Len(asking) |-> rest[i]]
    BY <2>1, Zenon
  <2> HIDE DEF rest
  <2> QED BY <2>1, <2>2, <2>3
<1> HIDE DEF rest
<1>6. RestOK("resolve", rest)
  BY <1>4, <1>5, Zenon DEF RestOK
<1>7. \A i \in DOMAIN rest : rest[i].op = "leave" => rest[i].of \notin firm
  BY <1>1, <1>4, <1>5, Zenon DEF FirmOK
<1>8. rest # << >> => Head(rest).op # "send"
  BY <1>4, <1>5, TailFacts, Zenon DEF Memberships
<1>9. doing = Idle /\ session /\ firm' = firm /\ table' \in Seq(Tokens) /\ budget' \in [Things -> Nat]
      /\ UNCHANGED <<mode, lease, joined, refused, pending, queue, link, wire, answer, dropped, doubt>>
  BY <1>1, Zenon DEF resolve_pending, Owes, RouteOK, LoopTypeOK, history
<1> QED BY <1>3, <1>5, <1>6, <1>7, <1>8, <1>9, StartsInv, Zenon

\* A call of the host's starts with nothing pending.
LEMMA CallSessionInv ==
  ASSUME BridgeInv, CallSession
  PROVE  BridgeInv'
<1>1. LoopTypeOK /\ RouteOK /\ doing = Idle /\ session /\ pending = NothingPending
  BY Zenon DEF BridgeInv, CallSession, Free, Owes
<1>2. PICK call \in [op : {"join", "leave", "broadcast"}, of : Channels, heard : {TRUE}]
                      \cup {Op("send", 0)} :
        Drives(call) /\ firm' = IF call.op = "leave" THEN firm \ {call.of} ELSE firm
  BY Zenon DEF CallSession
<1>3. call \in Calls /\ call.heard /\ (call.op = "send" => call.of = 0)
  <2>1. CASE call = Op("send", 0)
    BY <2>1, Zenon DEF Calls, Op
  <2>2. CASE call # Op("send", 0)
    BY <2>2, Zenon DEF Calls, Memberships
  <2> QED BY <2>1, <2>2, Zenon
<1>4. /\ <<call>> \in Seq(Calls) /\ DOMAIN <<call>> = {1} /\ <<call>>[1] = call /\ Len(<<call>>) = 1
      /\ Head(<<call>>) = call
  BY <1>3
<1>5. RestOK("call", <<call>>)
  BY <1>3, <1>4 DEF RestOK
<1>6. /\ table' \in Seq(Tokens) /\ budget' \in [Things -> Nat] /\ firm' \subseteq firm
      /\ Continue("call", <<call>>, asked)
      /\ UNCHANGED <<mode, lease, joined, refused, pending, queue, link, wire, answer, dropped, doubt>>
  BY <1>1, <1>2, SpendType, Zenon DEF CallSession, Drives, hostRest, RouteOK, Things
<1>7. \A i \in DOMAIN <<call>> : <<call>>[i].op = "leave" => <<call>>[i].of \notin firm'
  BY <1>2, <1>4, Zenon
<1> QED BY <1>1, <1>3, <1>4, <1>5, <1>6, <1>7, StartsInv, Zenon

\* A reply is sent under the lease its token was minted under.
LEMMA ReplyInv ==
  ASSUME BridgeInv, Reply
  PROVE  BridgeInv'
<1>1. LoopInv /\ LoopTypeOK /\ RouteOK /\ doing = Idle /\ table' = expire(table) /\ ~paused
      /\ expire(table) \in Seq(Tokens)
  BY TableTypes, Zenon DEF BridgeInv, LoopInv, RouteOK, Reply, Free
<1>2. budget' \in [Things -> Nat] /\ UNCHANGED <<joined, pending, refused, firm>>
  BY <1>1, SpendType, Zenon DEF Reply, Things
<1>3. PICK t \in Live(table) :
        IF resolve(table, t, lease, joined) = "Route" /\ session
          THEN LET route == RouteOf(table', t)
               IN Drives(Op(IF route.kind = "direct" THEN "send" ELSE "broadcast", route.to))
          ELSE UNCHANGED <<hostRest, session, doing, asked>>
  BY Zenon DEF Reply
<1>4. CASE ~(resolve(table, t, lease, joined) = "Route" /\ session)
  <2>1. UNCHANGED <<hostRest, session, doing, asked>>
    BY <1>3, <1>4, Zenon
  <2>2. LoopInv'
    BY <1>1, <1>2, <2>1, SameLoop, Zenon DEF hostRest, LoopTypeOK
  <2>3. RouteOK'
    BY <1>1, <2>1, Zenon DEF hostRest, RouteOK
  <2> QED BY <2>2, <2>3, Zenon DEF BridgeInv, LoopInv
<1>5. CASE resolve(table, t, lease, joined) = "Route" /\ session
  <2> DEFINE live == expire(table)
             route == RouteOf(live, t)
             call == Op(IF route.kind = "direct" THEN "send" ELSE "broadcast", route.to)
  <2>1. Drives(call)
    BY <1>1, <1>3, <1>5, Zenon
  <2>2. t \in Live(live) /\ ~(route.kind = "direct" /\ route.epoch # lease)
    BY <1>5, Zenon DEF resolve
  <2>3. route \in Routes
    <3>1. PICK i \in DOMAIN live : live[i].token = t
      BY <2>2, Zenon DEF Live
    <3> DEFINE k == CHOOSE j \in DOMAIN live : live[j].token = t
    <3>2. k \in DOMAIN live
      BY <3>1, Zenon
    <3>3. live[k] \in Tokens
      BY <1>1, <3>2
    <3> QED BY <3>3, Zenon DEF RouteOf, Tokens
  <2> HIDE DEF route
  <2>4. /\ route.to \in Channels \cup Nat
        /\ route.kind = "direct" => route.to = lease /\ lease # 0
    BY <2>2, <2>3 DEF Routes, DirectRoute, BroadcastRoute
  <2>5. call \in Calls /\ call.heard /\ call.op # "leave" /\ (call.op = "send" => call.of = link.epoch)
    BY <1>1, <2>4, Zenon DEF Op, Calls, RouteOK
  <2> HIDE DEF call
  <2>6. /\ <<call>> \in Seq(Calls) /\ DOMAIN <<call>> = {1} /\ <<call>>[1] = call /\ Len(<<call>>) = 1
        /\ Head(<<call>>) = call
    BY <2>5
  <2>7. RestOK("call", <<call>>)
    BY <2>5, <2>6 DEF RestOK
  <2>8. /\ Continue("call", <<call>>, asked)
        /\ UNCHANGED <<mode, lease, joined, refused, pending, queue, link, wire, answer, dropped, doubt>>
    BY <1>2, <2>1, Zenon DEF Drives, hostRest
  <2>9. pending = NothingPending
    BY <1>1, <1>5, Zenon DEF Reply, Free, Owes
  <2> QED BY <1>1, <1>2, <1>5, <2>5, <2>6, <2>7, <2>8, <2>9, StartsInv, Zenon
<1> QED BY <1>4, <1>5, Zenon

LEMMA LeaveAwayInv ==
  ASSUME BridgeInv, LeaveAway
  PROVE  BridgeInv'
<1>1. /\ LoopInv /\ LoopTypeOK /\ RouteOK /\ budget' \in [Things -> Nat]
      /\ ~session /\ doing = Idle
  BY SpendType, Zenon DEF BridgeInv, LoopInv, LeaveAway, Free, Things
<1>2. ~link.alive /\ asked = << >>
  BY <1>1, Zenon DEF LoopInv, DoingOK, AgreeOK, Idle
<1>3. UNCHANGED <<mode, lease, queue, link, wire, answer, dropped, doubt, table, session, doing, asked>>
  BY Zenon DEF LeaveAway, hostRest
<1>4. PICK c \in Channels : Leaves(c) /\ Settled(c) /\ firm' = firm \ {c}
  BY Zenon DEF LeaveAway
<1>5. LoopTypeOK'
  BY <1>1, <1>3, <1>4, Zenon DEF LoopTypeOK, Leaves, Settled
<1>6. RouteOK' /\ DoingOK'
  BY <1>1, <1>3, Zenon DEF LoopInv, RouteOK, DoingOK, Idle
<1>7. FirmOK'
  BY <1>1, <1>3, <1>4, Zenon DEF LoopInv, LoopTypeOK, FirmOK, JoinsOutliveSessions, Wanting, Leaves, Settled, Idle
<1>8. AgreeOK' /\ ReplyStaysInItsLease'
  BY <1>2, <1>3 DEF AgreeOK, ReplyStaysInItsLease
<1> QED BY <1>5, <1>6, <1>7, <1>8, Zenon DEF BridgeInv

\* `open`: each channel that is joined or was to be is joined again.
LEMMA OpenInv ==
  ASSUME BridgeInv, open
  PROVE  BridgeInv'
<1> DEFINE joins == In(joined')
           rest == [i \in DOMAIN joins |-> Op("join", joins[i])]
<1>1. LoopTypeOK /\ RouteOK /\ FirmOK /\ doing = Idle
  BY Zenon DEF BridgeInv, open, Free
<1>2. /\ link' = [alive |-> TRUE, epoch |-> link.epoch + 1, leased |-> TRUE, held |-> {}]
      /\ lease' = link'.epoch /\ wire' = << >> /\ answer' = NoAnswer /\ doubt' = {}
      /\ joined' = (joined \cup Wanting("join")) \ Wanting("leave")
      /\ refused' = refused \ Wanting("leave") /\ pending' = NothingPending
      /\ UNCHANGED <<mode, budget, table, queue, dropped, firm>>
  BY Zenon DEF open
<1>3. link' \in Links /\ link'.alive /\ link'.held = {} /\ answer'.code = "none" /\ answer' \in Answers
  BY <1>1, <1>2 DEF LoopTypeOK, Links, NoAnswer, Answers
<1>4. joined' \subseteq Channels /\ refused' \subseteq Channels
      /\ pending' \in [Channels -> {"none"} \cup Memberships] /\ \A c \in Channels : pending'[c] = "none"
  BY <1>1, <1>2, Zenon DEF LoopTypeOK, Wanting, NothingPending
<1>5. joins \in Seq(Channels) /\ Range(joins) = joined' /\ Once(joins)
  BY <1>4, InFacts, Zenon
<1>6. Continue("open", rest, << >>)
  BY Zenon DEF open
<1> HIDE DEF joins
<1>7. ASSUME NEW i \in DOMAIN joins
      PROVE  rest[i] \in Calls /\ rest[i].heard /\ rest[i].op = "join" /\ rest[i].of = joins[i]
  <2>1. joins[i] \in Channels
    BY <1>5
  <2> QED BY <2>1, Zenon DEF Op, Calls, Memberships
<1>8. rest \in Seq(Calls) /\ DOMAIN rest = DOMAIN joins /\ << >> \in Seq(Calls)
  <2>1. DOMAIN joins = 1..Len(joins) /\ Len(joins) \in Nat
    BY <1>5
  <2>2. \A i \in 1..Len(joins) : rest[i] \in Calls
    BY <1>7, <2>1, Zenon
  <2>3. rest = [i \in 1..Len(joins) |-> rest[i]]
    BY <2>1, Zenon
  <2> HIDE DEF rest
  <2> QED BY <2>1, <2>2, <2>3
<1> HIDE DEF rest
<1>9. RestOK("open", rest)
  BY <1>5, <1>7, <1>8 DEF RestOK, Memberships, Once
<1>10. rest # << >> => Head(rest) = rest[1] /\ 1 \in DOMAIN rest /\ Head(rest).op # "send"
  BY <1>7, <1>8, TailFacts, Zenon
<1>11. /\ doing' \in [at : {"idle", "open", "call", "resolve"}, rest : Seq(Calls)]
       /\ doing'.at = "idle" <=> doing'.rest = << >>
       /\ doing'.rest = rest /\ (rest = << >> <=> doing' = Idle) /\ (rest # << >> => doing'.at = "open")
       /\ session' \in BOOLEAN /\ asked' \in Seq(Calls)
       /\ DoingOK' /\ ReplyStaysInItsLease' /\ (HeldOK' => AgreeOK')
  <2>1. DOMAIN << >> = {}
    OBVIOUS
  <2> QED BY <1>1, <1>3, <1>6, <1>8, <1>9, <1>10, <2>1, ContinueOK, Zenon
<1>12. \A c \in Channels : c \in joined' <=> \E i \in DOMAIN rest : rest[i].of = c
  BY <1>5, <1>7, <1>8, Zenon DEF Range
<1>13. HeldOK'
  <2>1. CASE rest = << >>
    <3>1. joined' = {} /\ doing'.at # "open"
      BY <1>4, <1>11, <1>12, <2>1 DEF Idle
    <3> QED BY <1>3, <3>1, Zenon DEF HeldOK
  <2>2. CASE rest # << >>
    <3>1. Call' = rest[1] /\ rest[1].op \in Memberships /\ doing'.at = "open" /\ doing' # Idle
      BY <1>7, <1>8, <1>10, <1>11, <2>2, Zenon DEF Call, Memberships
    <3>2. Later' = {rest[i].of : i \in DOMAIN rest \ {1}}
      BY <1>11, Zenon DEF Later
    <3> QED BY <1>3, <1>12, <3>1, <3>2, Zenon DEF HeldOK, Current
  <2> QED BY <2>1, <2>2, Zenon
<1>14. LoopTypeOK' /\ RouteOK'
  <2>1. << >> \in Seq(Frames({link'.epoch})) /\ link'.epoch \in Nat
    BY <1>3 DEF Links
  <2>2. LoopTypeOK'
    BY <1>1, <1>2, <1>3, <1>4, <1>11, Zenon DEF LoopTypeOK
  <2>3. RouteOK'
    BY <1>1, <1>2, <2>1, Zenon DEF RouteOK
  <2> QED BY <2>2, <2>3, Zenon
<1>15. FirmOK'
  <2>1. JoinsOutliveSessions'
    BY <1>1, <1>2, Zenon DEF FirmOK, JoinsOutliveSessions, Wanting
  <2>2. \A i \in DOMAIN doing'.rest : doing'.rest[i].op # "leave"
    BY <1>7, <1>8, <1>11, Zenon
  <2> QED BY <1>1, <1>2, <1>4, <2>1, <2>2, Zenon DEF FirmOK, LoopTypeOK
<1> QED BY <1>11, <1>13, <1>14, <1>15, Zenon DEF BridgeInv

\* The call driven is done with, and the loop goes on with `rest`. Nothing but
\* the call's channel changes; that one is in question or agrees.
LEMMA GoesOn ==
  ASSUME LoopInv, doing # Idle, UNCHANGED <<mode, budget, link>>, answer' = NoAnswer,
         NEW rest, rest = Tail(doing.rest) \/ (rest = << >> /\ doing.at # "open"),
         NEW calls \in Seq(Calls), Continue(doing.at, rest, calls),
         joined' \subseteq Channels, refused' \subseteq Channels, doubt' \subseteq Channels,
         firm' \subseteq Channels, pending' \in [Channels -> {"none"} \cup Memberships],
         FirmOK', ~link.alive => calls = << >>,
         \A i \in DOMAIN calls :
           /\ ~calls[i].heard
           /\ link.alive /\ calls[i].op \in Memberships =>
                pending'[calls[i].of] # "none" \/ calls[i].of \in doubt'
           /\ calls[i].op = "send" /\ calls[i].of # 0 => calls[i].of = link.epoch,
         link.alive => \A c \in Channels : ~(pending'[c] # "none" \/ c \in doubt') =>
           IF Current(c) THEN c \in joined' <=> c \in link.held
           ELSE ~InQuestion(c) /\ (c \in joined' <=> c \in joined)
  PROVE  LoopInv'
<1>1. LoopTypeOK /\ link \in Links /\ NoAnswer.code = "none" /\ NoAnswer \in Answers
  BY Zenon DEF LoopInv, LoopTypeOK, NoAnswer, Answers
<1>2. /\ doing.rest # << >> /\ doing.rest \in Seq(Calls) /\ Call = doing.rest[1]
      /\ doing.at \in {"open", "call", "resolve"} /\ RestOK(doing.at, doing.rest)
  BY DrivenCall, Zenon
<1>3. /\ Tail(doing.rest) \in Seq(Calls) /\ << >> \in Seq(Calls) /\ Len(doing.rest) \in Nat \ {0}
      /\ DOMAIN doing.rest = 1..Len(doing.rest) /\ Len(Tail(doing.rest)) = Len(doing.rest) - 1
      /\ DOMAIN Tail(doing.rest) = 1..(Len(doing.rest) - 1)
      /\ \A i \in DOMAIN Tail(doing.rest) :
           Tail(doing.rest)[i] = doing.rest[i + 1] /\ i + 1 \in DOMAIN doing.rest
  BY <1>2, TailFacts
<1>4. rest \in Seq(Calls) /\ RestOK(doing.at, rest) /\ (doing.at = "call" => rest = << >>)
  <2>1. CASE rest = << >>
    BY <1>3, <2>1 DEF RestOK
  <2>2. CASE rest # << >>
    <3>1. rest = Tail(doing.rest)
      BY <2>2, Zenon
    <3>2. doing.at # "call"
      <4>1. doing.at = "call" => Len(doing.rest) <= 1
        BY <1>2, Zenon DEF RestOK
      <4>2. doing.at = "call" => Len(rest) = 0
        <5>1. \A n \in Nat \ {0} : n <= 1 => n - 1 = 0
          OBVIOUS
        <5> QED BY <1>3, <3>1, <4>1, <5>1, Zenon
      <4>3. rest \in Seq(Calls)
        BY <1>3, <3>1, Zenon
      <4> QED BY <2>2, <4>2, <4>3
    <3>3. \A i, j \in DOMAIN rest : i + 1 = j + 1 => i = j
      BY <1>3, <3>1
    <3> QED BY <1>2, <1>3, <3>1, <3>2, <3>3 DEF RestOK
  <2> QED BY <2>1, <2>2, Zenon
<1>5. rest # << >> => Head(rest) = rest[1] /\ 1 \in DOMAIN rest /\ Head(rest).op # "send"
  BY <1>2, <1>4, TailFacts, Zenon DEF RestOK, Memberships
<1>6. /\ doing' \in [at : {"idle", "open", "call", "resolve"}, rest : Seq(Calls)]
      /\ doing'.at = "idle" <=> doing'.rest = << >>
      /\ doing'.rest = rest /\ (rest = << >> <=> doing' = Idle) /\ (rest # << >> => doing'.at = doing.at)
      /\ session' \in BOOLEAN /\ asked' \in Seq(Calls)
      /\ DoingOK' /\ ReplyStaysInItsLease' /\ (HeldOK' => AgreeOK')
  <2>1. link.alive => session \/ doing.at = "open"
    BY Zenon DEF LoopInv, DoingOK
  <2> QED BY <1>1, <1>2, <1>4, <1>5, <2>1, ContinueOK, Zenon
<1>7. ASSUME link.alive PROVE HeldOK'
  <2> SUFFICES ASSUME NEW c \in Channels, ~(pending'[c] # "none" \/ c \in doubt')
               PROVE  /\ doing'.at = "open" /\ ~Current(c)' => (c \in joined' <=> c \in link.held \cup Later')
                      /\ doing'.at # "open" => (c \in joined' <=> c \in link.held)
    BY Zenon DEF HeldOK, InQuestion
  <2>1. HeldOK
    BY <1>7, Zenon DEF LoopInv, AgreeOK
  <2>2. IF Current(c) THEN c \in joined' <=> c \in link.held
        ELSE ~InQuestion(c) /\ (c \in joined' <=> c \in joined)
    BY <1>7, Zenon
  <2>3. CASE doing.at # "open"
    <3>1. doing'.at # "open"
      BY <1>6, <2>3, Zenon DEF Idle
    <3> QED BY <2>1, <2>2, <2>3, <3>1, Zenon DEF HeldOK
  <2>4. CASE doing.at = "open"
    <3>1. rest = Tail(doing.rest) /\ Call.op \in Memberships
      BY <1>2, <1>3, <2>4 DEF RestOK
    <3>2. c \in Later <=> \E i \in DOMAIN rest : rest[i].of = c
      <4>1. \A i \in DOMAIN doing.rest : i # 1 => i - 1 \in DOMAIN rest /\ rest[i - 1] = doing.rest[i]
        BY <1>3, <3>1
      <4>2. \A i \in DOMAIN rest : i + 1 \in DOMAIN doing.rest \ {1} /\ rest[i] = doing.rest[i + 1]
        BY <1>3, <3>1
      <4> QED BY <4>1, <4>2 DEF Later
    <3>3. Current(c) => c \notin Later
      BY <1>2, <2>4 DEF Current, Later, RestOK
    <3>4. c \in joined' <=> c \in link.held \/ c \in Later
      BY <2>1, <2>2, <2>4, <3>3, Zenon DEF HeldOK
    <3>5. CASE rest = << >>
      <4>1. c \notin Later /\ doing'.at # "open"
        BY <1>6, <3>2, <3>5 DEF Idle
      <4> QED BY <3>4, <4>1, Zenon
    <3>6. CASE rest # << >>
      <4>1. doing'.at = "open" /\ doing' # Idle /\ Call' = rest[1] /\ rest[1].op \in Memberships
        BY <1>4, <1>5, <1>6, <2>4, <3>6, Zenon DEF Call, RestOK
      <4>2. Later' = {rest[i].of : i \in DOMAIN rest \ {1}}
        BY <1>6, Zenon DEF Later
      <4> QED BY <3>2, <3>4, <4>1, <4>2, Zenon DEF Current
    <3> QED BY <3>5, <3>6, Zenon
  <2> QED BY <2>3, <2>4, Zenon
<1>8. AgreeOK'
  BY <1>4, <1>6, <1>7, Zenon DEF AgreeOK, Continue
<1>9. LoopTypeOK'
  BY <1>1, <1>6, Zenon DEF LoopTypeOK
<1> QED BY <1>6, <1>8, <1>9, Zenon DEF LoopInv

\* What an answer settles: its channel, as the answer says, and nothing else.
Settling ==
  /\ joined' \subseteq Channels /\ refused' \subseteq Channels
  /\ pending' \in [Channels -> {"none"} \cup Memberships]
  /\ \A c \in Channels :
       ~Current(c) => /\ (c \in joined' <=> c \in joined) /\ (c \in refused' <=> c \in refused)
                      /\ pending'[c] = pending[c]
  /\ Call.op \in Memberships /\ Code = "ok" => (Call.of \in joined' <=> Call.op = "join")
  /\ Call.op \in Memberships /\ Code = "refused" /\ link.alive /\ Call.of \notin doubt =>
       pending'[Call.of] # "none" \/ Call.of \notin joined'
  /\ \A c \in firm' :
       /\ c \in joined' \cup refused' \/ pending'[c] = "join"
       /\ pending'[c] # "leave"

LEMMA OpenSettles ==
  ASSUME BridgeInv, DriveAnswer, OpenAnswered,
         (Refuses(Call.of) /\ Failed) \/ (Joins(Call.of) /\ ~Failed)
  PROVE  Settling
<1>1. LoopInv /\ LoopTypeOK /\ FirmOK /\ doing # Idle /\ doing.at = "open"
  BY Zenon DEF BridgeInv, LoopInv, DriveAnswer, OpenAnswered
<1>2. Call \in Calls /\ Call.op = "join" /\ Call.of \in Channels
  BY <1>1, DrivenCall, Zenon DEF RestOK, Calls, Memberships
<1>3. UNCHANGED <<pending, firm>>
  BY <1>1, Zenon DEF DriveAnswer, OpenAnswered
<1>4. \A c \in Channels : Current(c) <=> c = Call.of
  BY <1>1, <1>2, Zenon DEF Current, Memberships
<1>5. firm \subseteq Channels /\ pending \in [Channels -> {"none"} \cup Memberships]
  BY <1>1, Zenon DEF LoopTypeOK
<1>6. CASE Refuses(Call.of) /\ Failed
  BY <1>1, <1>2, <1>3, <1>4, <1>5, <1>6, Zenon
     DEF LoopTypeOK, FirmOK, JoinsOutliveSessions, Wanting, Settling, Refuses, Failed
<1>7. CASE Joins(Call.of) /\ ~Failed
  BY <1>1, <1>2, <1>3, <1>4, <1>5, <1>7, Zenon
     DEF LoopTypeOK, FirmOK, JoinsOutliveSessions, Wanting, Settling, Joins, Failed
<1> QED BY <1>6, <1>7, Zenon

LEMMA ResolveSettles ==
  ASSUME BridgeInv, DriveAnswer, ResolveAnswered, Settled(Call.of),
         CASE Call.op = "join" -> IF Failed THEN Refuses(Call.of) ELSE Joins(Call.of)
           [] Call.op = "leave" -> IF Failed THEN Same ELSE Leaves(Call.of)
  PROVE  Settling
<1>1. LoopInv /\ LoopTypeOK /\ FirmOK /\ doing # Idle /\ doing.at = "resolve"
  BY Zenon DEF BridgeInv, LoopInv, DriveAnswer, ResolveAnswered
<1>2. Call \in Calls /\ Call.op \in Memberships /\ Call.of \in Channels
  BY <1>1, DrivenCall, Zenon DEF RestOK, Calls, Memberships
<1>3. UNCHANGED firm /\ pending' = [pending EXCEPT ![Call.of] = "none"]
  BY <1>1, Zenon DEF DriveAnswer, Settled
<1>4. \A c \in Channels : Current(c) <=> c = Call.of
  BY <1>1, <1>2, Zenon DEF Current
<1>5. firm \subseteq Channels /\ pending \in [Channels -> {"none"} \cup Memberships]
  BY <1>1, Zenon DEF LoopTypeOK
<1>6. CASE Call.op = "join"
  <2>1. CASE Failed
    BY <1>1, <1>2, <1>3, <1>4, <1>5, <1>6, <2>1, Zenon
       DEF LoopTypeOK, FirmOK, JoinsOutliveSessions, Wanting, Settling, Refuses, Failed
  <2>2. CASE ~Failed
    BY <1>1, <1>2, <1>3, <1>4, <1>5, <1>6, <2>2, Zenon
       DEF LoopTypeOK, FirmOK, JoinsOutliveSessions, Wanting, Settling, Joins, Failed
  <2> QED BY <2>1, <2>2, Zenon
<1>7. CASE Call.op = "leave"
  <2>1. Call.of \notin firm
    BY <1>1, <1>7, DrivenCall, Zenon DEF FirmOK
  <2>2. CASE Failed
    <3>1. Code = "refused" /\ link.alive => FALSE
      BY <1>1, <1>2, <1>7, Zenon DEF Code, LoopInv, AgreeOK, AnswerOK
    <3> QED BY <1>1, <1>2, <1>3, <1>4, <1>5, <1>7, <2>1, <2>2, <3>1, Zenon
            DEF LoopTypeOK, FirmOK, JoinsOutliveSessions, Wanting, Settling, Same, Failed
  <2>3. CASE ~Failed
    BY <1>1, <1>2, <1>3, <1>4, <1>5, <1>7, <2>1, <2>3, Zenon
       DEF LoopTypeOK, FirmOK, JoinsOutliveSessions, Wanting, Settling, Leaves, Failed
  <2> QED BY <2>2, <2>3, Zenon
<1> QED BY <1>2, <1>6, <1>7, Zenon DEF Memberships

LEMMA CallSettles ==
  ASSUME BridgeInv, DriveAnswer, CallAnswered
  PROVE  Settling
<1>1. /\ LoopInv /\ LoopTypeOK /\ FirmOK /\ doing # Idle /\ doing.at = "call"
      /\ pending = NothingPending
  BY Zenon DEF BridgeInv, LoopInv, DoingOK, DriveAnswer, CallAnswered
<1>2. Call \in Calls /\ (Call.op \in Memberships => Call.of \in Channels)
  BY <1>1, DrivenCall, Zenon DEF Calls, Memberships
<1>3. \A c \in Channels : Current(c) <=> Call.op \in Memberships /\ c = Call.of
  BY <1>1, Zenon DEF Current
<1>4. firm \subseteq Channels /\ pending \in [Channels -> {"none"} \cup Memberships]
  BY <1>1, Zenon DEF LoopTypeOK
<1>5. CASE Call.op \in {"send", "broadcast"}
  <2>1. UNCHANGED <<joined, refused, pending, firm>>
    BY <1>5, Zenon DEF CallAnswered, DriveAnswer, Same
  <2> QED BY <1>1, <1>3, <1>4, <1>5, <2>1, Zenon
          DEF LoopTypeOK, FirmOK, JoinsOutliveSessions, Wanting, Settling, Memberships
<1>6. CASE Call.op = "join"
  <2>1. /\ pending' = [pending EXCEPT ![Call.of] = "none"] /\ refused' = refused \ {Call.of}
        /\ joined' = IF Failed THEN joined ELSE joined \cup {Call.of}
        /\ firm' = IF Failed THEN firm \ {Call.of} ELSE firm \cup {Call.of}
    BY <1>1, <1>6, Zenon DEF CallAnswered, DriveAnswer, Settled
  <2>2. Code = "refused" /\ link.alive /\ Call.of \notin doubt => Call.of \notin joined
    <3> SUFFICES ASSUME Code = "refused", link.alive, Call.of \notin doubt PROVE Call.of \notin joined
      BY Zenon
    <3>1. answer.code = "refused" /\ HeldOK /\ AnswerOK
      BY <1>1, Zenon DEF Code, LoopInv, AgreeOK
    <3>2. Call.of \in Channels /\ Call.of \notin link.held /\ ~InQuestion(Call.of)
      BY <1>1, <1>2, <1>6, <3>1, Zenon DEF AnswerOK, InQuestion, NothingPending, Memberships
    <3> QED BY <1>1, <3>1, <3>2, Zenon DEF HeldOK
  <2>3. CASE Failed
    BY <1>1, <1>2, <1>3, <1>4, <1>6, <2>1, <2>2, <2>3, Zenon
       DEF LoopTypeOK, FirmOK, JoinsOutliveSessions, Wanting, Settling, Memberships, Failed
  <2>4. CASE ~Failed
    BY <1>1, <1>2, <1>3, <1>4, <1>6, <2>1, <2>4, Zenon
       DEF LoopTypeOK, FirmOK, JoinsOutliveSessions, Wanting, Settling, Memberships, Failed
  <2> QED BY <2>3, <2>4, Zenon
<1>7. CASE Call.op = "leave"
  <2>1. /\ pending' = [pending EXCEPT ![Call.of] = "none"] /\ firm' = firm
        /\ IF Failed /\ link.alive THEN Same ELSE Leaves(Call.of)
    BY <1>1, <1>7, Zenon DEF CallAnswered, DriveAnswer, Settled
  <2>2. Call.of \notin firm
    BY <1>1, <1>7, DrivenCall, Zenon DEF FirmOK
  <2>3. CASE Failed /\ link.alive
    <3>1. Code = "refused" /\ link.alive => FALSE
      BY <1>1, <1>2, <1>7, Zenon DEF Code, LoopInv, AgreeOK, AnswerOK, Memberships
    <3> QED BY <1>1, <1>2, <1>3, <1>4, <1>7, <2>1, <2>2, <2>3, <3>1, Zenon
            DEF LoopTypeOK, FirmOK, JoinsOutliveSessions, Wanting, Settling, Memberships, Same, Failed
  <2>4. CASE ~(Failed /\ link.alive)
    BY <1>1, <1>2, <1>3, <1>4, <1>7, <2>1, <2>2, <2>4, Zenon
       DEF LoopTypeOK, FirmOK, JoinsOutliveSessions, Wanting, Settling, Memberships, Leaves, Failed
  <2> QED BY <2>3, <2>4, Zenon
<1> QED BY <1>2, <1>5, <1>6, <1>7, Zenon DEF Calls, Memberships

LEMMA SettledInv ==
  ASSUME BridgeInv, DriveAnswer, Settling,
         NEW rest, rest = Tail(doing.rest) \/ (rest = << >> /\ doing.at # "open"), Onward(rest)
  PROVE  BridgeInv'
<1>1. /\ LoopInv /\ LoopTypeOK /\ RouteOK /\ FirmOK /\ doing # Idle /\ asked \in Seq(Calls)
      /\ link.alive \in BOOLEAN /\ firm \subseteq Channels /\ doubt \subseteq Channels
  BY Zenon DEF BridgeInv, LoopInv, DriveAnswer, LoopTypeOK, Links
<1>2. /\ UNCHANGED <<mode, budget, table, queue, dropped, lease, link, wire>>
      /\ answer' = NoAnswer /\ Continue(doing.at, rest, asked)
  BY Zenon DEF DriveAnswer, Onward
<1>3. RouteOK'
  BY <1>1, <1>2, Zenon DEF RouteOK
<1>4. /\ Call \in Calls /\ Call.heard /\ doing.rest \in Seq(Calls) /\ doing.rest # << >>
      /\ (Call.op \in Memberships => Call.of \in Channels)
  BY <1>1, DrivenCall, Zenon DEF Calls, Memberships
<1>5. \A i \in DOMAIN rest : \E j \in DOMAIN doing.rest : rest[i] = doing.rest[j]
  <2>1. DOMAIN << >> = {}
    OBVIOUS
  <2> QED BY <1>4, <2>1, TailFacts
<1>6. firm' \subseteq Channels /\ (doing.at # "call" => firm' = firm)
  BY <1>1, <1>4, Zenon DEF DriveAnswer, Memberships
<1>7. doing.at = "call" => rest = << >>
  BY <1>1, <1>4, DrivenCall, TailFacts DEF RestOK
<1>8. FirmOK'
  <2>1. doing'.rest = rest
    BY <1>2, Zenon DEF Continue, Idle
  <2>2. \A i \in DOMAIN rest : rest[i].op = "leave" => rest[i].of \notin firm'
    BY <1>1, <1>5, <1>6, <1>7 DEF FirmOK
  <2> QED BY <1>6, <2>1, <2>2, Zenon DEF FirmOK, JoinsOutliveSessions, Wanting, Settling
<1>9. CASE ~link.alive
  <2>1. asked = << >> /\ doubt' = {}
    BY <1>1, <1>2, <1>9, Zenon DEF LoopInv, AgreeOK, DriveAnswer
  <2>2. LoopInv'
    <3>1. DOMAIN asked = {}
      BY <2>1
    <3> QED BY <1>1, <1>2, <1>6, <1>8, <1>9, <2>1, <3>1, GoesOn, Zenon DEF Settling
  <2> QED BY <1>3, <2>2, Zenon DEF BridgeInv, LoopInv
<1>10. CASE link.alive
  <2>1. Driven /\ UnheardOK /\ AnswerOK /\ HeldOK /\ Answered /\ Code = answer.code
    BY <1>1, <1>10, Zenon DEF LoopInv, AgreeOK, DriveAnswer, Code
  <2>2. /\ Code \in {"ok", "refused", "timeout"}
        /\ \A i \in DOMAIN asked : ~asked[i].heard
        /\ asked # << >> => Code = "timeout"
    BY <1>1, <2>1, Zenon DEF Driven, Answered, LoopTypeOK, Answers
  <2>3. doubt' = IF Failed \/ Call.op \notin Memberships THEN doubt ELSE doubt \ {Call.of}
    BY <1>2, <1>10, Zenon DEF DriveAnswer, Memberships
  <2>4. Call.op \in Memberships /\ Code = "timeout" => Call.of \in doubt'
    BY <1>1, <2>1, <2>3, Zenon DEF AnswerOK, Failed
  <2>5. \A c \in Channels : Current(c) <=> Call.op \in Memberships /\ Call.of = c
    BY <1>1, Zenon DEF Current
  <2>6. \A c \in Channels : ~Current(c) => (c \in doubt' <=> c \in doubt)
    BY <2>3, <2>5, Zenon
  <2>7. ASSUME NEW i \in DOMAIN asked
        PROVE  /\ ~asked[i].heard
               /\ asked[i].op \in Memberships =>
                    pending'[asked[i].of] # "none" \/ asked[i].of \in doubt'
               /\ asked[i].op = "send" /\ asked[i].of # 0 => asked[i].of = link.epoch
    <3>1. asked[i].op = "send" /\ asked[i].of # 0 => asked[i].of = link.epoch
      BY <1>1, Zenon DEF LoopInv, ReplyStaysInItsLease
    <3>2. ASSUME asked[i].op \in Memberships
          PROVE  pending'[asked[i].of] # "none" \/ asked[i].of \in doubt'
      <4>1. InQuestion(asked[i].of) /\ asked[i].of \in Channels
        BY <1>1, <2>1, <2>2, <3>2 DEF UnheardOK, Calls, Memberships
      <4>2. CASE Current(asked[i].of)
        BY <2>2, <2>4, <2>5, <4>1, <4>2
      <4>3. CASE ~Current(asked[i].of)
        BY <2>6, <4>1, <4>3, Zenon DEF Settling, InQuestion
      <4> QED BY <4>2, <4>3, Zenon
    <3> QED BY <2>2, <3>1, <3>2, Zenon
  <2>8. ASSUME NEW c \in Channels, ~(pending'[c] # "none" \/ c \in doubt')
        PROVE  IF Current(c) THEN c \in joined' <=> c \in link.held
               ELSE ~InQuestion(c) /\ (c \in joined' <=> c \in joined)
    <3>1. CASE Current(c)
      <4>1. Call.op \in Memberships /\ Call.of = c /\ Code # "timeout"
        BY <2>4, <2>5, <2>8, <3>1, Zenon
      <4>2. CASE Code = "ok"
        BY <1>1, <2>1, <3>1, <4>1, <4>2, Zenon DEF Settling, AnswerOK
      <4>3. CASE Code = "refused"
        BY <1>1, <1>10, <2>1, <2>3, <2>8, <3>1, <4>1, <4>3, Zenon DEF Settling, AnswerOK, Failed
      <4> QED BY <2>2, <4>1, <4>2, <4>3, Zenon
    <3>2. CASE ~Current(c)
      BY <2>6, <2>8, <3>2, Zenon DEF Settling, InQuestion
    <3> QED BY <3>1, <3>2, Zenon
  <2>9. doubt' \subseteq Channels
    BY <1>1, <2>3, Zenon
  <2>10. LoopInv'
    BY <1>1, <1>2, <1>6, <1>8, <1>10, <2>7, <2>8, <2>9, GoesOn, Zenon DEF Settling
  <2> QED BY <1>3, <2>10, Zenon DEF BridgeInv, LoopInv
<1> QED BY <1>1, <1>9, <1>10, Zenon

LEMMA DriveAnswerInv ==
  ASSUME BridgeInv, DriveAnswer
  PROVE  BridgeInv'
<1>1. CASE OpenAnswered
  <2>1. CASE Failed /\ ~link.alive /\ Dropped /\ lease' = 0 /\ Same
    <3>1. CutShort
      BY <1>1, <2>1, Zenon DEF OpenAnswered, CutShort
    <3> QED BY <3>1, EndsInv, Zenon
  <2>2. CASE ((Refuses(Call.of) /\ Failed) \/ (Joins(Call.of) /\ ~Failed)) /\ Onward(Tail(doing.rest))
    <3>1. Settling
      BY <1>1, <2>2, OpenSettles, Zenon
    <3> QED BY <2>2, <3>1, SettledInv, Zenon
  <2> QED BY <1>1, <2>1, <2>2, Zenon DEF OpenAnswered
<1>2. CASE CallAnswered
  <2>1. Settling
    BY <1>2, CallSettles, Zenon
  <2>2. Onward(<< >>) /\ doing.at # "open"
    BY <1>2, Zenon DEF CallAnswered
  <2> QED BY <2>1, <2>2, SettledInv, Zenon
<1>3. CASE ResolveAnswered
  <2>1. CASE Failed /\ ~link.alive /\ Dropped /\ lease' = 0 /\ Same /\ UNCHANGED pending
    <3>1. CutShort
      BY <1>3, <2>1, Zenon DEF ResolveAnswered, CutShort
    <3> QED BY <3>1, EndsInv, Zenon
  <2>2. ASSUME Settled(Call.of), Onward(Tail(doing.rest)),
               CASE Call.op = "join" -> IF Failed THEN Refuses(Call.of) ELSE Joins(Call.of)
                 [] Call.op = "leave" -> IF Failed THEN Same ELSE Leaves(Call.of)
        PROVE  BridgeInv'
    <3>1. Settling
      BY <1>3, <2>2, ResolveSettles, Zenon
    <3> QED BY <2>2, <3>1, SettledInv, Zenon
  <2> QED BY <1>3, <2>1, <2>2, Zenon DEF ResolveAnswered
<1> QED BY <1>1, <1>2, <1>3, Zenon DEF DriveAnswer

\* The events beside a call may fill the queue: the call is dropped, and a join
\* or leave is pending from then on.
LEMMA DriveDrainInv ==
  ASSUME BridgeInv, DriveDrain
  PROVE  BridgeInv'
<1>1. /\ LoopInv /\ LoopTypeOK /\ RouteOK /\ FirmOK /\ doing # Idle /\ link.alive
      /\ Driven /\ UnheardOK /\ HeldOK
      /\ UNCHANGED <<mode, budget, link, doubt, firm>>
  BY Zenon DEF BridgeInv, LoopInv, AgreeOK, DriveDrain
<1>2. RouteOK'
  BY <1>1, TakeEventsRoutes, Zenon DEF DriveDrain
<1>3. CASE /\ answer' = [answer EXCEPT !.behind = Ahead]
           /\ UNCHANGED <<joined, refused, pending, session, doing, asked>>
  <2>1. answer' \in Answers /\ answer'.code = answer.code
    <3>1. room \in Int
      <4>1. {Bound, EventBatch} \subseteq Nat /\ Len(queue) \in Nat
        BY <1>1, BridgeAssumption DEF RouteOK
      <4> QED BY <4>1, LeastFacts DEF room
    <3>2. room \in Nat
      <4>1. {Bound, EventBatch} \subseteq Nat /\ Len(queue) \in Nat /\ Len(queue) <= Bound
        BY <1>1, BridgeAssumption DEF RouteOK
      <4> QED BY <4>1, LeastFacts DEF room
    <3>3. Ahead \in Nat
      BY <1>1, <3>2 DEF Ahead, LoopTypeOK, Answers
    <3> QED BY <1>1, <1>3, <3>3, Zenon DEF LoopTypeOK, Answers
  <2>2. LoopInv'
    BY <1>1, <1>3, <2>1, SameLoop, Zenon DEF LoopTypeOK
  <2> QED BY <1>2, <2>2, Zenon DEF BridgeInv, LoopInv
<1>4. CASE /\ answer' = NoAnswer
           /\ Cancelled
           /\ Continue(doing.at, IF doing.at = "open" THEN Tail(doing.rest) ELSE << >>, Unheard)
  <2> DEFINE rest == IF doing.at = "open" THEN Tail(doing.rest) ELSE << >>
  <2>1. /\ Call \in Calls /\ Call.heard /\ doing.rest \in Seq(Calls) /\ doing.rest # << >>
        /\ Call = doing.rest[1] /\ 1 \in DOMAIN doing.rest
        /\ (Call.op \in Memberships => Call.of \in Channels)
        /\ (doing.at = "open" => Call.op = "join") /\ asked \in Seq(Calls)
    BY <1>1, DrivenCall, Zenon DEF Calls, Memberships, RestOK, LoopTypeOK
  <2>2. \A c \in Channels : Current(c) <=> Call.op \in Memberships /\ Call.of = c
    BY <1>1, Zenon DEF Current
  <2>3. /\ pending \in [Channels -> {"none"} \cup Memberships] /\ firm \subseteq Channels
        /\ joined \subseteq Channels /\ refused \subseteq Channels /\ doubt \subseteq Channels
    BY <1>1, Zenon DEF LoopTypeOK
  <2>4. pending' = IF Call.op \in Memberships THEN [pending EXCEPT ![Call.of] = Call.op] ELSE pending
    BY <1>4, Zenon DEF Cancelled, Pends, Memberships
  <2>5. joined' = (IF doing.at = "open" THEN joined \ {Call.of} ELSE joined) /\ refused' = refused
    BY <1>4, Zenon DEF Cancelled
  <2>6. /\ pending' \in [Channels -> {"none"} \cup Memberships] /\ joined' \subseteq Channels
        /\ \A c \in Channels : Current(c) => pending'[c] = Call.op /\ Call.op # "none"
        /\ \A c \in Channels : ~Current(c) => pending'[c] = pending[c] /\ (c \in joined' <=> c \in joined)
    <3>1. pending' \in [Channels -> {"none"} \cup Memberships] /\ joined' \subseteq Channels
      BY <2>1, <2>3, <2>4, <2>5, Zenon
    <3>2. \A c \in Channels : Current(c) => pending'[c] = Call.op /\ Call.op # "none"
      BY <2>2, <2>3, <2>4, Zenon DEF Memberships
    <3>3. \A c \in Channels : ~Current(c) => pending'[c] = pending[c]
      BY <2>2, <2>3, <2>4, Zenon
    <3>4. \A c \in Channels : ~Current(c) => (c \in joined' <=> c \in joined)
      BY <2>1, <2>2, <2>5, Zenon DEF Memberships
    <3> QED BY <3>1, <3>2, <3>3, <3>4, Zenon
  <2>7. /\ Unheard \in Seq(Calls) /\ DOMAIN Unheard = DOMAIN asked
        /\ \A i \in DOMAIN asked : ~Unheard[i].heard /\ Unheard[i].op = asked[i].op
                                   /\ Unheard[i].of = asked[i].of
    <3>1. \A x \in Calls : [x EXCEPT !.heard = FALSE] \in Calls /\ ~[x EXCEPT !.heard = FALSE].heard
                           /\ [x EXCEPT !.heard = FALSE].op = x.op /\ [x EXCEPT !.heard = FALSE].of = x.of
      BY Zenon DEF Calls
    <3>2. \A i \in DOMAIN asked : asked[i] \in Calls
      BY <2>1
    <3>3. DOMAIN asked = 1..Len(asked) /\ Len(asked) \in Nat
      BY <2>1
    <3>4. Unheard = [i \in 1..Len(asked) |-> Unheard[i]] /\ DOMAIN Unheard = DOMAIN asked
          /\ \A i \in DOMAIN asked : Unheard[i] = [asked[i] EXCEPT !.heard = FALSE]
      BY <3>3, Zenon DEF Unheard
    <3>5. \A i \in 1..Len(asked) : Unheard[i] \in Calls
      BY <3>1, <3>2, <3>3, <3>4, Zenon
    <3>6. Unheard \in Seq(Calls)
      BY <3>3, <3>4, <3>5
    <3> QED BY <3>1, <3>2, <3>4, <3>6, Zenon
  <2>8. ASSUME NEW i \in DOMAIN Unheard
        PROVE  /\ ~Unheard[i].heard
               /\ Unheard[i].op \in Memberships =>
                    pending'[Unheard[i].of] # "none" \/ Unheard[i].of \in doubt'
               /\ Unheard[i].op = "send" /\ Unheard[i].of # 0 => Unheard[i].of = link.epoch
    <3>1. Unheard[i].op = "send" /\ Unheard[i].of # 0 => Unheard[i].of = link.epoch
      BY <1>1, <2>7, Zenon DEF LoopInv, ReplyStaysInItsLease
    <3>2. ASSUME asked[i].op \in Memberships
          PROVE  pending'[asked[i].of] # "none" \/ asked[i].of \in doubt
      <4>1. asked[i].of \in Channels
        BY <2>1, <2>7, <3>2 DEF Calls, Memberships
      <4>2. CASE asked[i].heard
        <5>1. asked[i] = Call
          BY <1>1, <2>7, <4>2, HeardIsDriven, Zenon
        <5> QED BY <2>2, <2>6, <3>2, <4>1, <5>1, Zenon
      <4>3. CASE ~asked[i].heard
        <5>1. InQuestion(asked[i].of)
          BY <1>1, <2>7, <3>2, <4>3, Zenon DEF UnheardOK
        <5> QED BY <2>6, <4>1, <5>1, Zenon DEF InQuestion
      <4> QED BY <4>2, <4>3, Zenon
    <3> QED BY <1>1, <2>7, <3>1, <3>2, Zenon
  <2>9. FirmOK'
    <3>1. doing'.rest = rest
      BY <1>4, Zenon DEF Continue, Idle
    <3>2. \A i \in DOMAIN rest : rest[i].op # "leave"
      <4>1. \A i \in DOMAIN doing.rest : doing.at = "open" => doing.rest[i].op = "join"
        BY <1>1, DrivenCall, Zenon DEF RestOK
      <4>2. DOMAIN << >> = {}
        OBVIOUS
      <4> QED BY <2>1, <4>1, <4>2, TailFacts
    <3>3. Call.op = "leave" => Call.of \notin firm
      BY <1>1, <2>1, Zenon DEF FirmOK
    <3>4. \A c \in firm : pending'[c] # "leave"
      BY <1>1, <2>2, <2>3, <2>6, <3>3, Zenon DEF FirmOK
    <3>5. \A c \in firm : c \in joined' \cup refused' \/ pending'[c] = "join"
      <4> SUFFICES ASSUME NEW c \in firm PROVE c \in joined' \cup refused' \/ pending'[c] = "join"
        BY Zenon
      <4>1. CASE Current(c)
        BY <2>2, <2>3, <2>6, <3>4, <4>1, Zenon DEF Memberships
      <4>2. CASE ~Current(c)
        BY <1>1, <2>3, <2>5, <2>6, <4>2, Zenon DEF FirmOK, JoinsOutliveSessions, Wanting
      <4> QED BY <4>1, <4>2, Zenon
    <3> HIDE DEF rest
    <3> QED BY <1>1, <2>3, <3>1, <3>2, <3>4, <3>5, Zenon DEF FirmOK, JoinsOutliveSessions, Wanting
  <2>10. \A c \in Channels : ~(pending'[c] # "none" \/ c \in doubt') =>
           IF Current(c) THEN c \in joined' <=> c \in link.held
           ELSE ~InQuestion(c) /\ (c \in joined' <=> c \in joined)
    BY <1>1, <2>6, Zenon DEF InQuestion
  <2>11. rest = Tail(doing.rest) \/ (rest = << >> /\ doing.at # "open")
    BY Zenon
  <2>12. LoopInv'
    <3>1. Continue(doing.at, rest, Unheard)
      BY <1>4, Zenon
    <3> HIDE DEF rest
    <3> QED BY <1>1, <1>4, <2>3, <2>5, <2>6, <2>7, <2>8, <2>9, <2>10, <2>11, <3>1, GoesOn, Zenon
  <2> QED BY <1>2, <2>12, Zenon DEF BridgeInv, LoopInv
<1> QED BY <1>3, <1>4, Zenon DEF DriveDrain

\* The bridge starts with no session, nothing joined and nothing pending.
LEMMA InitInv == Init => BridgeInv
<1> SUFFICES ASSUME Init PROVE BridgeInv
  BY Zenon
<1>1. \A S : << >> \in Seq(S) /\ Len(<< >>) = 0 /\ DOMAIN << >> = {}
  OBVIOUS
<1>2. doing = Idle /\ doing.at = "idle" /\ doing.rest = << >>
  BY Zenon DEF Init, Idle
<1>3. LoopTypeOK
  <2>1. pending \in [Channels -> {"none"} \cup Memberships]
    BY Zenon DEF Init, NothingPending
  <2>2. doing \in [at : {"idle", "open", "call", "resolve"}, rest : Seq(Calls)]
    BY <1>1, Zenon DEF Init, Idle
  <2>3. link \in Links /\ answer \in Answers
    BY Zenon DEF Init, Links, Answers, NoAnswer
  <2>4. asked \in Seq(Calls)
    BY <1>1, Zenon DEF Init
  <2> QED BY <1>2, <2>1, <2>2, <2>3, <2>4, Zenon DEF Init, LoopTypeOK
<1>4. RouteOK
  BY <1>1, BridgeAssumption DEF Init, RouteOK
<1>5. DoingOK
  BY <1>1, <1>2, Zenon DEF Init, DoingOK, RestOK
<1>6. FirmOK
  BY <1>1, <1>2, Zenon DEF Init, FirmOK, JoinsOutliveSessions, NothingPending
<1>7. AgreeOK
  BY <1>1, <1>2, Zenon DEF Init, AgreeOK, Driven, UnheardOK, AnswerOK, HeldOK, NoAnswer
<1>8. ReplyStaysInItsLease
  BY <1>1, Zenon DEF Init, ReplyStaysInItsLease
<1> QED BY <1>3, <1>4, <1>5, <1>6, <1>7, <1>8, Zenon DEF BridgeInv

\* Every step keeps the invariant.
LEMMA NextInv == BridgeInv /\ [Next]_vars => BridgeInv'
<1> SUFFICES ASSUME BridgeInv, [Next]_vars PROVE BridgeInv'
  BY Zenon
<1>1. CASE DirectArrives \/ BroadcastArrives \/ LeaseRevoked
  BY <1>1, ArrivesInv, Zenon
<1>2. CASE Perform \/ RefuseJoin \/ Discard
  BY <1>2, PerformInv, Zenon
<1>3. CASE Deadline
  BY <1>3, DeadlineInv, Zenon
<1>4. CASE SessionEnds \/ lost
  BY <1>4, EndsInv, Zenon
<1>5. CASE DriveAnswer
  BY <1>5, DriveAnswerInv, Zenon
<1>6. CASE DriveDrain
  BY <1>6, DriveDrainInv, Zenon
<1>7. CASE open
  BY <1>7, OpenInv, Zenon
<1>8. CASE resolve_pending
  BY <1>8, ResolvePendingInv, Zenon
<1>9. CASE pump \/ receive \/ Tick
  BY <1>9, PumpInv, Zenon
<1>10. CASE CallSession
  BY <1>10, CallSessionInv, Zenon
<1>11. CASE LeaveAway
  BY <1>11, LeaveAwayInv, Zenon
<1>12. CASE Reply
  BY <1>12, ReplyInv, Zenon
<1>13. CASE UNCHANGED vars
  <2>1. LoopInv
    BY Zenon DEF BridgeInv, LoopInv
  <2>2. UNCHANGED <<mode, budget, lease, joined, table, pending, refused, queue, session, doing,
                    link, asked, wire, answer, dropped, doubt, firm>>
    BY <1>13, Zenon DEF vars
  <2>3. RouteOK'
    BY <2>2, Zenon DEF BridgeInv, RouteOK
  <2>4. LoopInv'
    BY <2>1, <2>2, SameLoop, Zenon DEF LoopInv, LoopTypeOK
  <2> QED BY <2>3, <2>4, Zenon DEF BridgeInv, LoopInv
<1> QED BY <1>1, <1>2, <1>3, <1>4, <1>5, <1>6, <1>7, <1>8, <1>9, <1>10, <1>11, <1>12, <1>13, Zenon
        DEF Next

\* The inductive invariant holds throughout.
LEMMA AlwaysBridgeInv == Spec => []BridgeInv
<1>1. Init => BridgeInv
  BY InitInv, Zenon
<1>2. BridgeInv /\ [Next]_vars => BridgeInv'
  BY NextInv, Zenon
<1> QED BY <1>1, <1>2, PTL DEF Spec

\* For every number of channels, queue bound and event buffer, and every number
\* of sessions and calls: with nothing pending, no call under way and none that
\* its deadline answered, what `state.joined` counts is exactly what the session
\* holds at the daemon.
THEOREM JoinedAlwaysAgrees == Spec => []JoinedAgrees
<1>1. BridgeInv => JoinedAgrees
  <2> SUFFICES ASSUME BridgeInv, session, link.alive, doing = Idle, NEW c \in Channels,
                      pending[c] = "none", c \notin doubt
               PROVE  c \in joined <=> c \in link.held
    BY Zenon DEF JoinedAgrees
  <2>1. doing.at = "idle" /\ doing.rest = << >>
    BY Zenon DEF Idle
  <2>2. ~Current(c) /\ c \notin Later
    BY <2>1 DEF Current, Later
  <2>3. HeldOK
    BY Zenon DEF BridgeInv, AgreeOK
  <2> QED BY <2>1, <2>2, <2>3, Zenon DEF HeldOK, InQuestion
<1> QED BY <1>1, AlwaysBridgeInv, PTL

\* A join the host was told of is never forgotten by a session that ends, an
\* `open` that folds what was pending into it, a re-join cut off or a queue that
\* fills up: the channel is joined, to be joined or reported as refused until
\* the host leaves it.
THEOREM JoinsAlwaysOutlive == Spec => []JoinsOutliveSessions
<1>1. BridgeInv => JoinsOutliveSessions
  BY Zenon DEF BridgeInv, FirmOK
<1> QED BY <1>1, AlwaysBridgeInv, PTL

\* Whatever tokens entropy gives, and however late the host takes an event from
\* the pull queue, `reply` never sends the answer to a direct message under
\* another lease than the one the message arrived under.
THEOREM RepliesStayInTheirLease == Spec => []ReplyStaysInItsLease
<1>1. BridgeInv => ReplyStaysInItsLease
  BY Zenon DEF BridgeInv
<1> QED BY <1>1, AlwaysBridgeInv, PTL
=============================================================================
