----------------------------- MODULE Membership -----------------------------
(***************************************************************************)
(* The in-process data sessions of                                         *)
(* crates/transport/composition/src/session.rs in front of the broadcast   *)
(* plane: `join` and `leave` are futures that send a command over a        *)
(* bounded channel to the runtime task and wait for its answer, and their  *)
(* caller may drop them at any await. What a dropped future, a dropped     *)
(* session and an awaited `close` owe the substrate is kept in `owed`, in  *)
(* the channel, or in a spawned task. No messages: deliveries do not       *)
(* change who is joined.                                                   *)
(***************************************************************************)
EXTENDS Broadcast

CONSTANTS
    Capacity,   \* commands the channel to the runtime task holds
    NoChannel

ASSUME MembershipAssumption == Capacity \in Nat \ {0} /\ NoChannel \notin Channels

VARIABLES
    cmds,   \* the command channel; `heard`: somebody waits for the answer
    sess    \* what each session keeps

memberVars == <<vars, cmds, sess>>

\* `InProcessSession`: the membership call under way (the lock admits one),
\* what the session recorded, the leaves it owes, and the leaves its teardown
\* has yet to send. `firm` is history: joined, and no leave asked since.
SessionState ==
    [at     : {"idle", "owing", "paying", "paid", "asking", "waiting", "ok", "err", "closing",
               "ended"},
     op     : {"None", "Join", "Leave"},
     c      : Channels \cup {NoChannel},
     joined : SUBSET Channels,
     owed   : SUBSET Channels,
     rest   : Seq(Channels),
     firm   : SUBSET Channels]

MemberInit ==
    /\ Init
    /\ cmds = <<>>
    /\ sess = [s \in Sessions |-> [at |-> "idle", op |-> "None", c |-> NoChannel, joined |-> {},
                                   owed |-> {}, rest |-> <<>>, firm |-> {}]]

Command(op, s, c, heard) == [op |-> op, s |-> s, c |-> c, heard |-> heard]

Room == Len(cmds) < Capacity

\* The receiver of a dropped future's answer is gone.
Unheard(s) == [i \in DOMAIN cmds |-> IF cmds[i].s = s THEN [cmds[i] EXCEPT !.heard = FALSE]
                                     ELSE cmds[i]]

Idle(rec) == [rec EXCEPT !.at = "idle", !.op = "None", !.c = NoChannel]
-----------------------------------------------------------------------------
\* `join` or `leave` is called and has the membership lock.
Call(s, op, c) ==
    /\ sess[s].at = "idle"
    /\ sess' = [sess EXCEPT ![s].at = "owing", ![s].op = op, ![s].c = c,
                            ![s].firm = IF op = "Leave" THEN @ \ {c} ELSE @]
    /\ UNCHANGED <<vars, cmds>>

\* `send_owed_leaves`: one leave at a time is sent and answered; when none is
\* left, the call itself goes on.
SendOwedLeaves(s) ==
    /\ sess[s].at = "owing"
    /\ \/ /\ sess[s].owed = {}
          /\ sess' = [sess EXCEPT ![s].at = "asking"]
          /\ UNCHANGED cmds
       \/ \E c \in sess[s].owed :
             /\ Room
             /\ cmds' = Append(cmds, Command("Leave", s, c, TRUE))
             /\ sess' = [sess EXCEPT ![s].at = "paying"]
    /\ UNCHANGED vars

\* The owed leave was answered: at most one was owed.
OwedLeaveSent(s) ==
    /\ sess[s].at = "paid"
    /\ sess' = [sess EXCEPT ![s].at = "owing", ![s].owed = {}]
    /\ UNCHANGED <<vars, cmds>>

\* `ask`: the command waits for room in the channel, then for its answer.
Ask(s) ==
    /\ sess[s].at = "asking"
    /\ Room
    /\ cmds' = Append(cmds, Command(sess[s].op, s, sess[s].c, TRUE))
    /\ sess' = [sess EXCEPT ![s].at = "waiting"]
    /\ UNCHANGED vars

\* The call sees its answer and records it.
Record(s) ==
    /\ sess[s].at \in {"ok", "err"}
    /\ LET me == sess[s]
           ok == me.at = "ok"
       IN  sess' = [sess EXCEPT ![s] =
               [Idle(me) EXCEPT
                   !.joined = IF me.op = "Leave" THEN @ \ {me.c}
                              ELSE IF ok THEN @ \cup {me.c} ELSE @,
                   !.firm   = IF me.op = "Join" /\ ok THEN @ \cup {me.c} ELSE @]]
    /\ UNCHANGED <<vars, cmds>>

\* Mutant of Armed: the guard does not ask whether the session had joined.
ArmedAlways(s) ==
    /\ sess[s].op = "Join"
    /\ sess[s].at \in {"asking", "waiting", "ok", "err"}

\* Whether the call's JoinGuard is armed: a join past its owed leaves, of a
\* channel not recorded yet.
Armed(s) ==
    /\ sess[s].op = "Join"
    /\ sess[s].at \in {"asking", "waiting", "ok", "err"}
    /\ sess[s].c \notin sess[s].joined

\* Mutant of Cancel: a join nobody waits for any more is forgotten.
CancelUnguarded(s) ==
    /\ sess[s].at \notin {"idle", "closing", "ended"}
    /\ cmds' = Unheard(s)
    /\ sess' = [sess EXCEPT ![s] = Idle(@)]
    /\ UNCHANGED vars

\* The caller drops the future. An armed guard queues a leave behind the
\* join, or has the session owe it when the channel is full.
Cancel(s) ==
    LET me == sess[s]
    IN  /\ me.at \notin {"idle", "closing", "ended"}
        /\ IF Armed(s) /\ Room
           THEN cmds' = Append(Unheard(s), Command("Leave", s, me.c, FALSE))
           ELSE cmds' = Unheard(s)
        /\ sess' = [sess EXCEPT ![s] =
               [Idle(me) EXCEPT !.owed = IF Armed(s) /\ ~Room THEN @ \cup {me.c} ELSE @]]
        /\ UNCHANGED vars

\* The channels of a set one after the other, as the code's ordered set
\* gives them: some fixed order.
InOrder(S) == CHOOSE q \in Injection(1..Cardinality(S), S) : TRUE

\* `channels_to_leave`.
ChannelsToLeave(s) == sess[s].joined \cup sess[s].owed

\* `close`: awaits a leave of every channel, in order.
Close(s) ==
    /\ sess[s].at = "idle"
    /\ sess' = [sess EXCEPT ![s].at = "closing", ![s].firm = {},
                            ![s].rest = InOrder(ChannelsToLeave(s))]
    /\ UNCHANGED <<vars, cmds>>

\* The session is dropped, `close` not called or not run to its end:
\* `release_now` queues what fits, the session's release last; when not
\* everything fitted, a task sends all of it again, waiting for room.
Drop(s) ==
    /\ sess[s].at \in {"idle", "closing"}
    /\ LET leaves == InOrder(ChannelsToLeave(s))
           all    == Append([i \in DOMAIN leaves |-> Command("Leave", s, leaves[i], FALSE)],
                            Command("Release", s, NoChannel, FALSE))
           fits   == Len(cmds) + Len(all) <= Capacity
       IN  /\ cmds' = cmds \o (IF fits THEN all ELSE SubSeq(all, 1, Capacity - Len(cmds)))
           /\ sess' = [sess EXCEPT ![s].at = "ended", ![s].firm = {}, ![s].joined = {},
                                   ![s].owed = {}, ![s].rest = IF fits THEN <<>> ELSE leaves]
    /\ UNCHANGED vars

\* `close`, or the task of `release_now`, sends its next leave.
SendRest(s) ==
    /\ sess[s].rest # <<>>
    /\ Room
    /\ cmds' = Append(cmds, Command("Leave", s, Head(sess[s].rest), FALSE))
    /\ sess' = [sess EXCEPT ![s].rest = Tail(@)]
    /\ UNCHANGED vars

\* `close` has sent every leave: it is done, and its drop does nothing.
Closed(s) ==
    /\ sess[s].at = "closing" /\ sess[s].rest = <<>>
    /\ sess' = [sess EXCEPT ![s].at = "ended", ![s].joined = {}, ![s].owed = {}]
    /\ UNCHANGED <<vars, cmds>>

\* The runtime task takes the next command and answers whoever still waits.
RunCommand ==
    /\ cmds # <<>>
    /\ LET cmd == Head(cmds)
           answer(word) == IF cmd.heard THEN [sess EXCEPT ![cmd.s].at = word] ELSE sess
       IN  /\ cmds' = Tail(cmds)
           /\ \/ cmd.op = "Join" /\ Join(cmd.c, cmd.s) /\ sess' = answer("ok")
              \/ cmd.op = "Join" /\ JoinRefused(cmd.c, cmd.s) /\ sess' = answer("err")
              \/ /\ cmd.op = "Join" /\ JoinDenied(cmd.c, cmd.s)
                 /\ sess' = answer("err")
                 /\ UNCHANGED vars
              \/ /\ cmd.op = "Leave" /\ Leave(cmd.c, cmd.s)
                 /\ sess' = answer(IF sess[cmd.s].at = "paying" THEN "paid" ELSE "ok")
              \/ cmd.op = "Release" /\ UNCHANGED <<vars, sess>>

\* The configuration is replaced (`SwarmCommand::ConfigureBroadcast`).
Reconfigure ==
    /\ \E want \in Wanted, cap \in Ceilings :
          (\E size \in Bounds : ConfigureBroadcast(want, cap, size)) \/ ConfigureDenied(want, cap)
    /\ UNCHANGED <<cmds, sess>>

SessionStep(s) ==
    \/ \E op \in {"Join", "Leave"}, c \in Channels : Call(s, op, c)
    \/ SendOwedLeaves(s) \/ OwedLeaveSent(s) \/ Ask(s) \/ Record(s)
    \/ Cancel(s) \/ Close(s) \/ Drop(s) \/ SendRest(s) \/ Closed(s)

MemberNext == (\E s \in Sessions : SessionStep(s)) \/ RunCommand \/ Reconfigure

MemberSpec == MemberInit /\ [][MemberNext]_memberVars
-----------------------------------------------------------------------------
\* The channels somebody will still leave for the session.
ToBeLeft(s) == {cmds[i].c : i \in {j \in DOMAIN cmds : cmds[j].op = "Leave" /\ cmds[j].s = s}}

\* Whatever call was cancelled wherever, a join the substrate holds is one
\* the session knows of, is asking for, or has a leave under way for; a
\* session that ended and whose leaves were run holds nothing.
EveryJoinIsAccountedFor ==
    \A c \in DOMAIN joins : \A s \in joins[c] :
        c \in sess[s].joined \cup sess[s].owed \cup {sess[s].c} \cup Range(sess[s].rest)
              \cup ToBeLeft(s)

\* A join that was answered, and that the session did not ask to leave since,
\* holds: no late leave of a cancelled call undoes it.
AnsweredJoinsHold ==
    \A s \in Sessions : \A c \in sess[s].firm :
        s \in Subscribers(c) /\ c \notin ToBeLeft(s)
=============================================================================
