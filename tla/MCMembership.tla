---------------------------- MODULE MCMembership ----------------------------
(* Instance of Membership and of the Broadcast it is made of, for TLC. A     *)
(* behaviour is about one of two things, chosen in its initial state: the    *)
(* messages, where a session's call is one step, or the sessions' calls,     *)
(* without messages. Their states add up instead of multiplying.             *)
EXTENDS Membership, TLC

CONSTANTS
    MessageChannels,   \* the channels of a behaviour about messages
    CallChannels,      \* the channels of a behaviour about calls
    CallWanted         \* what its configurations want

VARIABLE scene

MCInit ==
    /\ MemberInit
    /\ scene \in {"messages", "calls"}
    /\ scene = "calls" => trusted = {}

\* What a session records of calls that ran to their end.
Recorded(s) == {c \in DOMAIN joins' : s \in joins'[c]}

Messages ==
    /\ scene = "messages"
    /\ Next
    /\ desired' \cup DOMAIN joins' \subseteq MessageChannels
    /\ sess' = [s \in Sessions |-> [sess[s] EXCEPT !.joined = Recorded(s), !.firm = Recorded(s)]]
    /\ UNCHANGED cmds

\* The channels a session's calls and records are about. While another
\* session holds one, a session has at most one.
Held(s) == (sess'[s].joined \cup sess'[s].owed \cup {sess'[s].c}) \ {NoChannel}

Calls ==
    /\ scene = "calls"
    /\ MemberNext
    /\ desired' \in CallWanted
    /\ ceiling' = bound'   \* every configuration lowers both to one
    /\ \A s \in Sessions :
          \/ \A t \in Sessions \ {s} : sess'[t].at = "ended"
          \/ /\ Held(s) \subseteq CallChannels
             /\ \/ Cardinality(Held(s)) <= 1
                \/ \A t \in Sessions \ {s} : Held(t) = {}

MCNext == (Messages \/ Calls) /\ UNCHANGED scene

MCSpec == MCInit /\ [][MCNext]_<<memberVars, scene>>

Symmetric == Permutations(Sessions)
=============================================================================
