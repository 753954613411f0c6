------------------------------ MODULE MCBridge ------------------------------
EXTENDS Bridge

CONSTANTS a, b

MCChannels == {a, b}
MCOrder == <<a, b>>

Nothing == [direct |-> 0, broadcast |-> 0, revoke |-> 0, refusal |-> 0, deadline |-> 0,
            end |-> 0, call |-> 0, reply |-> 0, tick |-> 0, entropy |-> 1]

\* Joins and leaves that a filling queue cancels, across a reconnect.
Cancels == [Nothing EXCEPT !.direct = 3, !.refusal = 1, !.end = 2, !.call = 3]

\* A deadline that passes while a call is still to be performed.
Late == [Nothing EXCEPT !.direct = 2, !.deadline = 1, !.call = 3]

\* Tokens minted, resolved, expired and evicted while sessions come and go.
Replies == [Nothing EXCEPT !.direct = 2, !.broadcast = 1, !.revoke = 1, !.end = 1,
                           !.call = 1, !.reply = 1, !.tick = 1, !.entropy = 3]

MCInit ==
  /\ \/ mode = "pull" /\ budget \in {Cancels, Late, Replies}
     \/ mode = "push" /\ budget \in {Cancels, Replies}
  /\ Init

MCSpec == MCInit /\ [][Next]_vars /\ Fairness
=============================================================================
